---- MODULE Spec2Model ----
(***************************************************************************)
(* Knowledge-base MCP server: the index lifecycle manager                  *)
(* (FaissIndexManager: initialize / updateIndex / similaritySearch) and    *)
(* the URL ingestion state machine (UrlManager: suggest / list / approve / *)
(* reject / addUrl), as driven by the tool handlers of KnowledgeBaseServer.*)
(*                                                                         *)
(* Names (knowledge bases, files, URLs) are sequences of tokens, so that   *)
(* startsWith('.'), extname and the URL sanitiser are computed, not        *)
(* assumed.  An optional value is a sequence of length 0 (absent / null)   *)
(* or 1 (present).  The vector store is a bag of chunks.                   *)
(*                                                                         *)
(* File edits by the outside world happen between tool invocations and     *)
(* while the process is down, never in the middle of a handler.  Every     *)
(* fallible I/O step has a failing outcome; the number of injected         *)
(* failures, edits, crashes and configuration changes is bounded.          *)
(*                                                                         *)
(* Spec    is the index lifecycle: start, retrieve_knowledge, edits,       *)
(*         crashes, restarts under a changed configuration.                *)
(* SpecUrl is the URL ingestion of a started server that holds one pending *)
(*         URL: suggest_url, list_pending_urls, approve_url, reject_url,   *)
(*         add_url, with the re-index they trigger.                        *)
(***************************************************************************)
EXTENDS Integers, Sequences, FiniteSets, Bags, TLC

\* ------------------------------------------------------------------ bounds
\* the largest content version of a file (0 is the empty content)
MaxContent == 2
\* how many events of the outside world one run has: file edits, injected
\* I/O failures, crashes, configuration changes, suggested URLs and fetched
\* pages, in any mix
MaxEvents == 2

\* ------------------------------------------------------------ option type
Null == <<>>
Some(x) == <<x>>
Get(o) == o[1]

\* ------------------------------------------------------------------ names
KB1 == <<"kb1">>
KB2 == <<"kb2">>
FaissDirName == <<".", "faiss">>
AMd == <<"a", ".", "md">>
BTxt == <<"b", ".", "txt">>

\* entry.name.startsWith('.') / knowledgeBaseName.startsWith('.')
StartsWithDot(name) == Len(name) > 0 /\ name[1] = "."

\* The root directory as readdir lists it: the default index directory
\* (.faiss) lives under the root, beside the knowledge bases.
RootEntries == <<FaissDirName, KB1, KB2>>
KBs == {KB1, KB2}

\* position of the last "." token, 0 if none
LastDot(name) == LET S == {i \in 1..Len(name) : name[i] = "."}
                 IN IF S = {} THEN 0 ELSE CHOOSE i \in S : \A j \in S : j <= i

\* path.extname: from the last dot, unless that dot leads the name
ExtName(name) == LET d == LastDot(name)
                 IN IF d <= 1 THEN <<>> ELSE SubSeq(name, d, Len(name))

ToLowerCase(tok) == IF tok = "MD" THEN "md" ELSE tok

IsMarkdown(name) == LET e == ExtName(name)
                    IN [i \in 1..Len(e) |-> ToLowerCase(e[i])] = <<".", "md">>

\* --------------------------------------------------------------------- URLs
U1 == <<"https://", "x", "/", "doc">>
U2 == <<"http://", "y", ":", "8080", "/">>
URLs == {U1, U2}

IsProtocol(tok) == tok \in {"https://", "http://"}
IsReserved(tok) == tok \in {"/", ":", "?", "#"}

RECURSIVE CollapseUnderscores(_)
CollapseUnderscores(s) ==
    IF Len(s) <= 1 THEN s
    ELSE IF s[1] = "_" /\ s[2] = "_" THEN CollapseUnderscores(Tail(s))
    ELSE <<s[1]>> \o CollapseUnderscores(Tail(s))

StripEnds(s) ==
    LET a == IF Len(s) > 0 /\ s[1] = "_" THEN Tail(s) ELSE s
    IN IF Len(a) > 0 /\ a[Len(a)] = "_" THEN SubSeq(a, 1, Len(a) - 1) ELSE a

\* sanitizeUrlForFilename (the 200-character cap never bites on these URLs)
sanitizeUrlForFilename(url) ==
    LET noProto == SelectSeq(url, LAMBDA t : ~IsProtocol(t))
        under == [i \in 1..Len(noProto) |->
                    IF IsReserved(noProto[i]) THEN "_" ELSE noProto[i]]
    IN StripEnds(CollapseUnderscores(under))

UrlFileName(url) == sanitizeUrlForFilename(url) \o <<".", "md">>

\* --------------------------------------------------------------------- files
\* A content file is <<knowledge base, file name>>.
SeedNames == <<AMd, BTxt>>
SeedFiles == {<<KB1, AMd>>, <<KB1, BTxt>>, <<KB2, AMd>>}
UrlNames == {UrlFileName(u) : u \in URLs}
FileNames == {AMd, BTxt} \cup UrlNames
AllFiles == KBs \X FileNames

\* directory-listing order of the names inside one knowledge base
NameOrder == <<AMd, BTxt, UrlFileName(U1), UrlFileName(U2)>>

Contents == 0..MaxContent

\* calculateSHA256: injective on contents
SHA256(c) == <<"sha256", c>>

\* MarkdownTextSplitter.createDocuments: no chunk for empty text, else chunks
SplitMarkdown(c) == 1..c

\* the documents built from a file's content: markdown is split, any other
\* file is one document holding the whole content (also when it is empty)
Documents(f, c) ==
    IF IsMarkdown(f[2]) THEN {<<f, c, i>> : i \in SplitMarkdown(c)}
    ELSE {<<f, c, 1>>}

\* ---------------------------------------------------------------- providers
Providers == {"ollama", "huggingface"}
ModelNames == {"m1", "m2"}

\* -------------------------------------------------------------------- errors
FaultCodes == {"EACCES", "EROFS", "EIO"}

isPermissionError(code) == code \in {"EACCES", "EPERM", "EROFS"}

\* An error is its message, the action the message names, its code, the
\* __alreadyLogged mark, and how often the manager has logged it.
NoError == [message |-> "", action |-> "", code |-> "", alreadyLogged |-> FALSE,
            logged |-> 0]

\* an error thrown by an I/O call and not passed through handleFsOperationError
RawError(code) ==
    [message |-> code, action |-> "", code |-> code, alreadyLogged |-> FALSE,
     logged |-> 0]

\* a handler of I/O errors that logs and forgets to mark the error as logged
handleFsOperationError_Unmarked(action, code) ==
    IF isPermissionError(code)
    THEN [message |-> "Permission denied while attempting to", action |-> action,
          code |-> code, alreadyLogged |-> FALSE, logged |-> 1]
    ELSE [message |-> code, action |-> "", code |-> code, alreadyLogged |-> FALSE,
          logged |-> 1]

\* handleFsOperationError(action, targetPath, error): logs once, marks the
\* error and throws it; a permission error is replaced by one whose message
\* names the action and the resolved path
handleFsOperationError(action, code) ==
    IF isPermissionError(code)
    THEN [message |-> "Permission denied while attempting to", action |-> action,
          code |-> code, alreadyLogged |-> TRUE, logged |-> 1]
    ELSE [message |-> code, action |-> "", code |-> code, alreadyLogged |-> TRUE,
          logged |-> 1]

\* the outer catch of initialize() and of updateIndex(): the error is logged
\* unless it carries the mark, and is thrown again as it is
OuterCatch(e) == IF e.alreadyLogged THEN e ELSE [e EXCEPT !.logged = @ + 1]

\* ===================================================================== state
VARIABLES
    content,      \* file tree: [AllFiles -> optional content] (Null: no such file)
    hashRec,      \* <kb>/.index/<file>: [AllFiles -> optional digest]
    indexDirs,    \* the knowledge bases whose .index directory exists
    faissDir,     \* whether FAISS_INDEX_PATH exists
    diskIndex,    \* <index-path>/faiss.index: optional bag of chunks
    modelFile,    \* <index-path>/model_name.txt: optional model name
    pendingFile,  \* the pending-URL file: optional sequence of PendingUrl records
    env,          \* process.env: the configured provider tag and its model name
    pc,           \* where the process is
    provider,     \* FaissIndexManager.embeddingProvider
    modelName,    \* FaissIndexManager.modelName
    faissIndex,   \* FaissIndexManager.faissIndex: optional bag of chunks
    ini,          \* the run of initialize(): its outcome
    ui,           \* the frame of the running updateIndex call
    req,          \* the frame of the running tool handler
    obs,          \* what the running updateIndex call did (embeds, saves, hash writes)
    hist,         \* what happened before: last completed call, persisted identity
    used,         \* edits, injected failures, crashes, ... and ids drawn so far
    conc,         \* the tool calls in progress when requests overlap, per handler slot
    walk,         \* a directory tree and the run of getFilesRecursively over it
    boot,         \* an environment and the manager constructed from it
    ingest        \* two URLs and the files saveMarkdown has written for them

fsVars == <<content, hashRec, indexDirs, faissDir, diskIndex, modelFile, pendingFile, env>>
mgrVars == <<provider, modelName, faissIndex>>
vars == <<content, hashRec, indexDirs, faissDir, diskIndex, modelFile, pendingFile,
          env, pc, provider, modelName, faissIndex, ini, ui, req, obs, hist, used, conc,
          walk, boot, ingest>>

IniIdle == [status |-> "none", mismatch |-> FALSE, err |-> NoError]

UiIdle == [scope |-> Null, caller |-> "none", kbs |-> <<>>, queue |-> <<>>,
           any |-> FALSE, cur |-> Null, hash |-> Null, docs |-> {},
           status |-> "none", err |-> NoError,
           repeat |-> FALSE, prevClean |-> FALSE, afterDrift |-> FALSE]

NoFiles == [f \in AllFiles |-> Null]

ReqIdle == [tool |-> "none", id |-> 0, url |-> <<>>, kb |-> <<>>, urls |-> <<>>,
            idx |-> 0, preStatus |-> "none", pre |-> Null, preFiles |-> NoFiles,
            markdown |-> 0, fetched |-> FALSE, wrote |-> FALSE, persisted |-> FALSE,
            reindexed |-> FALSE, steps |-> <<>>, scope |-> Null, searched |-> FALSE,
            hits |-> {}, query |-> 0, threshold |-> Null, result |-> "none",
            err |-> NoError, readFailed |-> FALSE]

ObsIdle == [embedded |-> {}, saves |-> 0, hashWrites |-> {}, skipped |-> {},
            faults |-> {}, startHash |-> <<>>, startNull |-> FALSE]

\* the handler invocations that may be in progress at the same time
Tasks == {"first", "second"}

\* the locals of one updateIndex call
TaskIdle == [pc |-> "idle", scope |-> Null, queue |-> <<>>, any |-> FALSE,
             cur |-> Null, hash |-> Null, docs |-> {}, stale |-> FALSE]

ConcIdle == [task |-> [t \in Tasks |-> TaskIdle], overlapped |-> FALSE]

\* ------------------------------------------------ getFilesRecursively(dirPath)
\* A directory tree under some root. A path is the sequence of the names that
\* lead to it from the root; the root is <<>>. Every directory lists its
\* entries in the same order of names.
Sub == <<"sub">>
IndexDirName == <<".", "index">>
EntryOrder == <<Sub, IndexDirName, AMd>>
EntryNames == {EntryOrder[i] : i \in DOMAIN EntryOrder}

\* what a directory entry is; "other" is neither a directory nor a regular file
\* (a link, a socket), "none" is no entry
Kinds == {"none", "file", "dir", "other"}

\* top: the entries of the root; sub: the entries of the directories of the root
EmptyDir == [n \in EntryNames |-> "none"]
EmptyTree == [top |-> EmptyDir, sub |-> [n \in EntryNames |-> EmptyDir]]

\* the directories of the root hold files only; anything else holds nothing
SubsFor(top) == {s \in [EntryNames -> [EntryNames -> {"none", "file"}]] :
                    \A n \in EntryNames : top[n] # "dir" => s[n] = EmptyDir}

Trees == UNION {{[top |-> top, sub |-> sub] : sub \in SubsFor(top)} :
                   top \in [EntryNames -> Kinds]}

RootPath == <<>>
TreePaths == {<<n>> : n \in EntryNames} \cup {<<n, m>> : n \in EntryNames, m \in EntryNames}

KindOf(tree, p) == IF p = RootPath THEN "dir"
                   ELSE IF Len(p) = 1 THEN tree.top[p[1]]
                   ELSE tree.sub[p[1]][p[2]]

\* the directories of a tree, the root among them
DirsOf(tree) == {RootPath} \cup {p \in TreePaths : KindOf(tree, p) = "dir"}

\* fsp.readdir(currentPath, {withFileTypes: true}) when it succeeds
readdir(tree, currentPath) ==
    LET names == SelectSeq(EntryOrder,
                    LAMBDA n : KindOf(tree, Append(currentPath, n)) # "none")
    IN [i \in 1..Len(names) |->
           [name |-> names[i], kind |-> KindOf(tree, Append(currentPath, names[i]))]]

\* a traversal that looks at hidden entries too
SkipEntry_Never(entry) == FALSE

\* "if (entry.name.startsWith('.')) continue"
SkipEntry(entry) == StartsWithDot(entry.name)

\* a catch that lets the failure out of the traversal
CatchTraverse_Rethrow(acc, currentPath) == [acc EXCEPT !.thrown = TRUE]

\* the catch of traverse: the failure is logged and the directory is left
CatchTraverse(acc, currentPath) == [acc EXCEPT !.logged = Append(@, currentPath)]

RECURSIVE traverse(_, _, _, _)
RECURSIVE ForEntries(_, _, _, _, _)

\* the loop of traverse over the entries still to visit; acc holds the files
\* pushed and the failures logged so far (thrown: an exception is under way)
ForEntries(tree, unreadable, currentPath, entries, acc) ==
    IF entries = <<>> \/ acc.thrown THEN acc
    ELSE LET entry == Head(entries)
             fullPath == Append(currentPath, entry.name)
             after == IF SkipEntry(entry) THEN acc
                      ELSE IF entry.kind = "dir"    \* entry.isDirectory()
                           THEN traverse(tree, unreadable, fullPath, acc)
                      ELSE IF entry.kind = "file"   \* entry.isFile()
                           THEN [acc EXCEPT !.files = Append(@, fullPath)]
                      ELSE acc
         IN ForEntries(tree, unreadable, currentPath, Tail(entries), after)

\* traverse(currentPath): readdir fails for the directories in unreadable
traverse(tree, unreadable, currentPath, acc) ==
    IF currentPath \in unreadable
    THEN CatchTraverse(acc, currentPath)
    ELSE ForEntries(tree, unreadable, currentPath, readdir(tree, currentPath), acc)

\* getFilesRecursively over a tree: the files array, with what was logged
getFilesRecursivelyIn(tree, unreadable, dirPath) ==
    traverse(tree, unreadable, dirPath, [files |-> <<>>, logged |-> <<>>, thrown |-> FALSE])

\* the run of getFilesRecursively over a tree and of the file loop of the
\* updateIndex call that asked for it
WalkIdle == [tree |-> EmptyTree, unreadable |-> {}, phase |-> "call",
             files |-> <<>>, logged |-> <<>>, thrown |-> FALSE,
             queue |-> <<>>, anyFileProcessed |-> FALSE, hashed |-> {}]

\* ------------------------------------------------- new FaissIndexManager()
\* An environment variable is unset (Null), empty, or holds a value.
Unset(v) == v = Null \/ Get(v) = ""

\* "process.env.X || fallback"
OrDefault(v, fallback) == IF Unset(v) THEN fallback ELSE Get(v)

\* the environments a process may be started in: the tag may name a provider
\* the server knows, another one, or nothing
ProviderTags == {Null, Some(""), Some("ollama"), Some("openai"), Some("huggingface"),
                 Some("cohere")}
ProcessEnvs == [EMBEDDING_PROVIDER : ProviderTags,
                OPENAI_API_KEY : {Null, Some(""), Some("sk-key")},
                HUGGINGFACE_API_KEY : {Null, Some(""), Some("hf-key")},
                OLLAMA_MODEL : {Null, Some("m1")},
                OPENAI_MODEL_NAME : {Null, Some("m1")},
                HUGGINGFACE_MODEL_NAME : {Null, Some("m2")}]

\* config.ts
EMBEDDING_PROVIDER(e) == OrDefault(e.EMBEDDING_PROVIDER, "huggingface")
HUGGINGFACE_MODEL_NAME(e) == OrDefault(e.HUGGINGFACE_MODEL_NAME,
                                       "sentence-transformers/all-MiniLM-L6-v2")
OLLAMA_MODEL(e) == OrDefault(e.OLLAMA_MODEL, "dengcao/Qwen3-Embedding-0.6B:Q8_0")
OPENAI_MODEL_NAME(e) == OrDefault(e.OPENAI_MODEL_NAME, "text-embedding-ada-002")

NoManager == [embeddingProvider |-> "", modelName |-> "", embeddings |-> "none"]

Constructed(tag, model, class) ==
    [outcome |-> "constructed", error |-> "",
     manager |-> [embeddingProvider |-> tag, modelName |-> model, embeddings |-> class]]

ConstructorThrows(variable) ==
    [outcome |-> "thrown", error |-> variable, manager |-> NoManager]

\* the last branch of the constructor: every tag that is neither 'ollama' nor
\* 'openai' gets HuggingFace embeddings
ElseBranch(e) ==
    IF Unset(e.HUGGINGFACE_API_KEY) THEN ConstructorThrows("HUGGINGFACE_API_KEY")
    ELSE Constructed(EMBEDDING_PROVIDER(e), HUGGINGFACE_MODEL_NAME(e),
                     "HuggingFaceInferenceEmbeddings")

\* FaissIndexManager.constructor
constructor(e) ==
    IF EMBEDDING_PROVIDER(e) = "ollama"
    THEN Constructed(EMBEDDING_PROVIDER(e), OLLAMA_MODEL(e), "OllamaEmbeddings")
    ELSE IF EMBEDDING_PROVIDER(e) = "openai"
    THEN IF Unset(e.OPENAI_API_KEY) THEN ConstructorThrows("OPENAI_API_KEY")
         ELSE Constructed(EMBEDDING_PROVIDER(e), OPENAI_MODEL_NAME(e), "OpenAIEmbeddings")
    ELSE ElseBranch(e)

\* the construction of a manager from an environment, and its life after it
BootIdle == [env |-> [EMBEDDING_PROVIDER |-> Null, OPENAI_API_KEY |-> Null,
                      HUGGINGFACE_API_KEY |-> Null, OLLAMA_MODEL |-> Null,
                      OPENAI_MODEL_NAME |-> Null, HUGGINGFACE_MODEL_NAME |-> Null],
             phase |-> "new", outcome |-> "none", error |-> "", manager |-> NoManager,
             made |-> NoManager, embedsWith |-> "none", envChanged |-> FALSE]

\* ------------------------------------------------------------ saveMarkdown
\* URLs a client may hand to add_url or suggest_url: two protocols, one host,
\* several separators before the path, a trailing slash, another host
IngestUrls == {<<p, "x", s, "doc">> : p \in {"https://", "http://"}, s \in {"/", "?", ":"}}
                 \cup {<<"https://", "x", "/", "doc", "/">>, U2}

\* the URLs to ingest, each with its knowledge base, and the files written so
\* far: which URL the file of a path was last written for
IngestIdle == [todo |-> <<>>, done |-> <<>>, files |-> {}]

Events == used.edits + used.faults + used.crashes + used.reconfigs
             + used.suggests + used.fetches
CanFault == Events < MaxEvents
Faulted == [used EXCEPT !.faults = @ + 1]

\* the tree of a user: two notes and a text file, one of the notes still empty
SeedContent == [f \in AllFiles |-> IF f \notin SeedFiles THEN Null
                                   ELSE IF f = <<KB2, AMd>> THEN Some(0) ELSE Some(1)]

\* The state before the first start: a user's knowledge bases, nothing indexed.
InitServer ==
    /\ content = SeedContent
    /\ hashRec = [f \in AllFiles |-> Null]
    /\ indexDirs = {}
    /\ faissDir = FALSE
    /\ diskIndex = Null
    /\ modelFile = Null
    /\ pendingFile = Null
    /\ env = [EMBEDDING_PROVIDER |-> "ollama", MODEL |-> "m1"]
    /\ pc = "down"
    /\ provider = "ollama"
    /\ modelName = "m1"
    /\ faissIndex = Null
    /\ ini = IniIdle
    /\ ui = UiIdle
    /\ req = ReqIdle
    /\ obs = ObsIdle
    /\ hist = [lastOk |-> Null, lastClean |-> FALSE, invalidated |-> FALSE,
               persistedId |-> Null]
    /\ used = [edits |-> 0, faults |-> 0, crashes |-> 0, reconfigs |-> 0,
               suggests |-> 0, fetches |-> 0, ids |-> 0]
    /\ conc = ConcIdle

Init ==
    /\ InitServer
    /\ walk = WalkIdle
    /\ boot = BootIdle
    /\ ingest = IngestIdle

\* ------------------------------------------------------------- environment
\* Somebody edits (or creates) a file of a knowledge base.
Edit(f, c) ==
    /\ pc \in {"idle", "down"}
    /\ Events < MaxEvents
    /\ content[f] # Some(c)
    /\ content' = [content EXCEPT ![f] = Some(c)]
    /\ used' = [used EXCEPT !.edits = @ + 1]
    /\ hist' = [hist EXCEPT !.lastOk = Null]
    /\ UNCHANGED <<hashRec, indexDirs, faissDir, diskIndex, modelFile, pendingFile,
                   env, pc, mgrVars, ini, ui, req, obs>>
    /\ UNCHANGED <<conc, walk, boot, ingest>>

\* The process stops (crash, kill, SIGINT) at any point: memory is lost.
Crash ==
    /\ pc # "down"
    /\ Events < MaxEvents
    /\ pc' = "down"
    /\ faissIndex' = Null
    /\ ini' = IniIdle
    /\ ui' = UiIdle
    /\ req' = ReqIdle
    /\ obs' = ObsIdle
    /\ hist' = [hist EXCEPT !.lastOk = Null]
    /\ used' = [used EXCEPT !.crashes = @ + 1]
    /\ UNCHANGED <<fsVars, provider, modelName>>
    /\ UNCHANGED <<conc, walk, boot, ingest>>

\* The operator changes the embedding configuration while the server is down.
Reconfigure(p, m) ==
    /\ pc = "down"
    /\ Events < MaxEvents
    /\ env # [EMBEDDING_PROVIDER |-> p, MODEL |-> m]
    /\ env' = [EMBEDDING_PROVIDER |-> p, MODEL |-> m]
    /\ used' = [used EXCEPT !.reconfigs = @ + 1]
    /\ UNCHANGED <<content, hashRec, indexDirs, faissDir, diskIndex, modelFile,
                   pendingFile, pc, mgrVars, ini, ui, req, obs, hist>>
    /\ UNCHANGED <<conc, walk, boot, ingest>>

\* ---------------------------------------------------------------- startup
\* new KnowledgeBaseServer() -> new FaissIndexManager(): the provider tag and
\* the model name of that provider come from the environment; run() then
\* connects the transport and calls initialize().
Construct ==
    /\ pc = "down"
    /\ provider' = env.EMBEDDING_PROVIDER
    /\ modelName' = env.MODEL
    /\ faissIndex' = Null
    /\ ini' = [IniIdle EXCEPT !.status = "running"]
    /\ pc' = "init_check"
    /\ UNCHANGED <<fsVars, ui, req, obs, hist, used>>
    /\ UNCHANGED <<conc, walk, boot, ingest>>

\* initialize() throws: the outer catch logs (unless already logged) and rethrows.
InitThrow(e) ==
    /\ ini' = [ini EXCEPT !.status = "error", !.err = OuterCatch(e)]
    /\ pc' = "init_return"

\* initialize(), first part: create the index directory, read the stored model
\* name, and on a changed model name delete the index file and drop the handle.
Init_Check ==
    /\ pc = "init_check"
    /\ LET mismatch == /\ hist.persistedId # Null
                       /\ Get(hist.persistedId) # <<provider, modelName>>
       IN
       \/ \* mkdir of the index directory fails
          /\ ~faissDir /\ CanFault
          /\ \E code \in FaultCodes :
                InitThrow(handleFsOperationError("create FAISS index directory", code))
          /\ used' = Faulted
          /\ UNCHANGED <<fsVars, mgrVars, ui, req, obs, hist>>
       \/ \* the stored model name is read (a failed read is only a warning)
          \E readOk \in BOOLEAN :
            /\ readOk \/ (modelFile # Null /\ CanFault)
            /\ LET stored == IF readOk THEN modelFile ELSE Null
                   drift == stored # Null /\ Get(stored) # modelName
               IN
               \/ \* no drift, or drift and the index file is deleted if present
                  /\ faissDir' = TRUE
                  /\ diskIndex' = IF drift THEN Null ELSE diskIndex
                  /\ faissIndex' = IF drift THEN Null ELSE faissIndex
                  /\ hist' = [hist EXCEPT !.invalidated = drift]
                  /\ ini' = [ini EXCEPT !.mismatch = mismatch]
                  /\ pc' = "init_load"
                  /\ used' = IF readOk THEN used ELSE Faulted
                  /\ UNCHANGED <<content, hashRec, indexDirs, modelFile, pendingFile, env,
                                 provider, modelName, ui, req, obs>>
               \/ \* drift, and unlink of the index file fails
                  /\ drift /\ diskIndex # Null /\ readOk /\ CanFault
                  /\ faissDir' = TRUE
                  /\ \E code \in FaultCodes :
                        /\ ini' = [ini EXCEPT !.mismatch = mismatch, !.status = "error",
                                     !.err = OuterCatch(handleFsOperationError("delete stale FAISS index", code))]
                        /\ pc' = "init_return"
                  /\ used' = Faulted
                  /\ UNCHANGED <<content, hashRec, indexDirs, diskIndex, modelFile,
                                 pendingFile, env, mgrVars, ui, req, obs, hist>>
    /\ UNCHANGED <<conc, walk, boot, ingest>>

\* an initialize that leaves the index file on disk unloaded
Init_Load_Skip ==
    /\ pc = "init_load"
    /\ faissIndex' = Null
    /\ pc' = "init_persist"
    /\ UNCHANGED <<ini, used>>
    /\ UNCHANGED <<fsVars, provider, modelName, ui, req, obs, hist>>
    /\ UNCHANGED <<conc, walk, boot, ingest>>

\* initialize(), second part: load the index file if there is one.
Init_Load ==
    /\ pc = "init_load"
    /\ \/ /\ diskIndex # Null
          /\ faissIndex' = diskIndex
          /\ pc' = "init_persist"
          /\ UNCHANGED <<ini, used>>
       \/ /\ diskIndex # Null /\ CanFault
          /\ \E code \in FaultCodes :
                InitThrow(handleFsOperationError("load FAISS index from", code))
          /\ used' = Faulted
          /\ UNCHANGED faissIndex
       \/ /\ diskIndex = Null
          /\ faissIndex' = Null
          /\ pc' = "init_persist"
          /\ UNCHANGED <<ini, used>>
    /\ UNCHANGED <<fsVars, provider, modelName, ui, req, obs, hist>>
    /\ UNCHANGED <<conc, walk, boot, ingest>>

\* initialize(), last part: persist the live model name.
Init_Persist ==
    /\ pc = "init_persist"
    /\ \/ /\ modelFile' = Some(modelName)
          /\ hist' = [hist EXCEPT !.persistedId = Some(<<provider, modelName>>)]
          /\ ini' = [ini EXCEPT !.status = "ok"]
          /\ pc' = "init_return"
          /\ UNCHANGED used
       \/ /\ CanFault
          /\ \E code \in FaultCodes :
                InitThrow(handleFsOperationError("persist embedding model metadata in", code))
          /\ used' = Faulted
          /\ UNCHANGED <<modelFile, hist>>
    /\ UNCHANGED <<content, hashRec, indexDirs, faissDir, diskIndex, pendingFile, env,
                   mgrVars, ui, req, obs>>
    /\ UNCHANGED <<conc, walk, boot, ingest>>

\* run(): initialize() has returned or thrown; a failure is logged and swallowed,
\* and the server, already connected, serves requests either way.
Run_Ready ==
    /\ pc = "init_return"
    /\ pc' = "idle"
    /\ ini' = [ini EXCEPT !.mismatch = FALSE, !.err = NoError]
    /\ UNCHANGED <<fsVars, mgrVars, ui, req, obs, hist, used>>
    /\ UNCHANGED <<conc, walk, boot, ingest>>

\* ============================================================== updateIndex
\* getFilesRecursively(kb): the non-hidden files of the knowledge base in
\* directory-listing order; it never throws (a failed listing yields nothing).
getFilesRecursively(kb, listOk) ==
    IF ~listOk THEN <<>>
    ELSE LET present == SelectSeq(NameOrder,
                          LAMBDA n : ~StartsWithDot(n) /\ content[<<kb, n>>] # Null)
         IN [i \in 1..Len(present) |-> <<kb, present[i]>>]

\* the files of the scanned knowledge bases, dot folders skipped
RECURSIVE ScanFiles(_, _)
ScanFiles(kbs, failed) ==
    IF kbs = <<>> THEN <<>>
    ELSE (IF StartsWithDot(Head(kbs)) THEN <<>>
          ELSE getFilesRecursively(Head(kbs), Head(kbs) \notin failed))
         \o ScanFiles(Tail(kbs), failed)

\* a comparison that takes every file for changed
HasChanged_Always(fileHash, storedHash) == TRUE

\* "if (fileHash !== storedHash)": the file is new or has changed
HasChanged(fileHash, storedHash) == Some(fileHash) # storedHash

UiThrow(e) ==
    /\ ui' = [ui EXCEPT !.status = "failed", !.err = OuterCatch(e)]
    /\ pc' = "ui_return"

ObsFault(step) == [obs EXCEPT !.faults = @ \cup {step}]

\* an updateIndex that lists the root directory whatever name it is given
StartUpdate_AllKbs(scope, caller) ==
    /\ hist' = [hist EXCEPT !.lastOk = Null, !.invalidated = FALSE]
    /\ LET frame == [UiIdle EXCEPT !.scope = scope, !.caller = caller,
                                   !.status = "running",
                                   !.repeat = (hist.lastOk = Some(scope)),
                                   !.prevClean = hist.lastClean,
                                   !.afterDrift = (hist.invalidated /\ scope = Null)]
           watch == [ObsIdle EXCEPT !.startHash = hashRec,
                                    !.startNull = (faissIndex = Null)]
       IN
       \/ \* the listings succeed, or one knowledge base cannot be listed
          \E failed \in SUBSET KBs :
            /\ Cardinality(failed) <= 1
            /\ failed # {} => CanFault
            /\ LET kbs == RootEntries
               IN /\ failed \subseteq {kbs[i] : i \in 1..Len(kbs)}
                  /\ ui' = [frame EXCEPT !.kbs = kbs, !.queue = ScanFiles(kbs, failed)]
            /\ used' = IF failed = {} THEN used ELSE Faulted
            /\ obs' = IF failed = {} THEN watch ELSE [watch EXCEPT !.faults = {"list"}]
            /\ pc' = "ui_next"
       \/ \* readdir of the root directory fails
          /\ scope = Null /\ CanFault
          /\ \E code \in FaultCodes :
                /\ ui' = [frame EXCEPT !.status = "failed", !.err = OuterCatch(RawError(code))]
                /\ pc' = "ui_return"
          /\ obs' = [watch EXCEPT !.faults = {"readdir"}]
          /\ used' = Faulted

\* updateIndex(specificKnowledgeBase?) is entered: the knowledge bases to scan
\* are the named one, or the entries of the root directory.
StartUpdate(scope, caller) ==
    /\ hist' = [hist EXCEPT !.lastOk = Null, !.invalidated = FALSE]
    /\ LET frame == [UiIdle EXCEPT !.scope = scope, !.caller = caller,
                                   !.status = "running",
                                   !.repeat = (hist.lastOk = Some(scope)),
                                   !.prevClean = hist.lastClean,
                                   !.afterDrift = (hist.invalidated /\ scope = Null)]
           watch == [ObsIdle EXCEPT !.startHash = hashRec,
                                    !.startNull = (faissIndex = Null)]
       IN
       \/ \* the listings succeed, or one knowledge base cannot be listed
          \E failed \in SUBSET KBs :
            /\ Cardinality(failed) <= 1
            /\ failed # {} => CanFault
            /\ LET kbs == IF scope # Null THEN <<Get(scope)>> ELSE RootEntries
               IN /\ failed \subseteq {kbs[i] : i \in 1..Len(kbs)}
                  /\ ui' = [frame EXCEPT !.kbs = kbs, !.queue = ScanFiles(kbs, failed)]
            /\ used' = IF failed = {} THEN used ELSE Faulted
            /\ obs' = IF failed = {} THEN watch ELSE [watch EXCEPT !.faults = {"list"}]
            /\ pc' = "ui_next"
       \/ \* readdir of the root directory fails
          /\ scope = Null /\ CanFault
          /\ \E code \in FaultCodes :
                /\ ui' = [frame EXCEPT !.status = "failed", !.err = OuterCatch(RawError(code))]
                /\ pc' = "ui_return"
          /\ obs' = [watch EXCEPT !.faults = {"readdir"}]
          /\ used' = Faulted

\* One pass of the per-file loop up to the embedding: hash the file, make the
\* .index directory, read the stored hash, compare, read and chunk the content.
UI_Next ==
    /\ pc = "ui_next"
    /\ ui.queue # <<>>
    /\ LET f == Head(ui.queue)
           fileHash == SHA256(Get(content[f]))
           seen == [ui EXCEPT !.any = TRUE]
           next == [seen EXCEPT !.queue = Tail(@)]
       IN
       \/ \* calculateSHA256 throws: nothing in the loop catches it
          /\ CanFault
          /\ \E code \in FaultCodes :
                /\ ui' = [seen EXCEPT !.status = "failed", !.err = OuterCatch(RawError(code))]
                /\ pc' = "ui_return"
          /\ obs' = ObsFault("hash")
          /\ used' = Faulted
          /\ UNCHANGED indexDirs
       \/ \* mkdir of the .index directory fails
          /\ f[1] \notin indexDirs /\ CanFault
          /\ \E code \in FaultCodes :
                /\ ui' = [seen EXCEPT !.status = "failed",
                            !.err = OuterCatch(handleFsOperationError("create index metadata directory", code))]
                /\ pc' = "ui_return"
          /\ obs' = ObsFault("mkdir")
          /\ used' = Faulted
          /\ UNCHANGED indexDirs
       \/ \* the stored hash is read (a failed read counts as no record)
          \E storedOk \in BOOLEAN, readOk \in BOOLEAN :
            /\ storedOk \/ readOk
            /\ storedOk \/ (hashRec[f] # Null /\ CanFault)
            /\ readOk \/ CanFault
            /\ indexDirs' = indexDirs \cup {f[1]}
            /\ used' = IF storedOk /\ readOk THEN used ELSE Faulted
            /\ LET storedHash == IF storedOk THEN hashRec[f] ELSE Null
                   docs == Documents(f, Get(content[f]))
               IN IF ~HasChanged(fileHash, storedHash)
                  THEN \* unchanged: skipping
                       /\ readOk
                       /\ ui' = next
                       /\ pc' = "ui_next"
                       /\ UNCHANGED obs
                  ELSE IF ~readOk
                  THEN \* the content cannot be read: logged, next file
                       /\ ui' = next
                       /\ pc' = "ui_next"
                       /\ obs' = [ObsFault("read") EXCEPT !.skipped = @ \cup {f}]
                  ELSE IF docs = {}
                  THEN \* no documents generated: skipping the index update
                       /\ ui' = next
                       /\ pc' = "ui_next"
                       /\ obs' = IF storedOk THEN obs ELSE ObsFault("stored")
                  ELSE /\ ui' = [seen EXCEPT !.cur = Some(f), !.hash = Some(fileHash),
                                             !.docs = docs]
                       /\ pc' = "ui_embed"
                       /\ obs' = IF storedOk THEN obs ELSE ObsFault("stored")
    /\ UNCHANGED <<content, hashRec, faissDir, diskIndex, modelFile, pendingFile, env,
                   mgrVars, ini, req, hist>>
    /\ UNCHANGED <<conc, walk, boot, ingest>>

\* an embedding that always makes a new store of the file's documents
UI_Embed_Fresh ==
    /\ pc = "ui_embed"
    /\ \/ /\ faissIndex' = Some(SetToBag(ui.docs))
          /\ obs' = [obs EXCEPT !.embedded = @ \cup ui.docs]
          /\ pc' = "ui_save"
          /\ UNCHANGED <<ui, used>>
       \/ /\ CanFault
          /\ \E code \in FaultCodes : UiThrow(RawError(code))
          /\ obs' = ObsFault("embed")
          /\ used' = Faulted
          /\ UNCHANGED faissIndex
    /\ UNCHANGED <<fsVars, provider, modelName, ini, req, hist>>
    /\ UNCHANGED <<conc, walk, boot, ingest>>

\* The documents are embedded: FaissStore.fromTexts when there is no store yet,
\* faissIndex.addDocuments otherwise.
UI_Embed ==
    /\ pc = "ui_embed"
    /\ \/ /\ faissIndex' = IF faissIndex = Null
                           THEN Some(SetToBag(ui.docs))
                           ELSE Some(Get(faissIndex) (+) SetToBag(ui.docs))
          /\ obs' = [obs EXCEPT !.embedded = @ \cup ui.docs]
          /\ pc' = "ui_save"
          /\ UNCHANGED <<ui, used>>
       \/ /\ CanFault
          /\ \E code \in FaultCodes : UiThrow(RawError(code))
          /\ obs' = ObsFault("embed")
          /\ used' = Faulted
          /\ UNCHANGED faissIndex
    /\ UNCHANGED <<fsVars, provider, modelName, ini, req, hist>>
    /\ UNCHANGED <<conc, walk, boot, ingest>>

\* a save that writes the hash record first, whatever the save then does
UI_Save_HashFirst ==
    /\ pc = "ui_save"
    /\ hashRec' = [hashRec EXCEPT ![Get(ui.cur)] = ui.hash]
    /\ \/ /\ diskIndex' = faissIndex
          /\ faissDir' = TRUE
          /\ obs' = [obs EXCEPT !.saves = @ + 1]
          /\ pc' = "ui_hash"
          /\ UNCHANGED <<ui, used>>
       \/ /\ CanFault
          /\ \E code \in FaultCodes :
                UiThrow(handleFsOperationError("save FAISS index at", code))
          /\ obs' = ObsFault("save")
          /\ used' = Faulted
          /\ UNCHANGED <<diskIndex, faissDir>>
    /\ UNCHANGED <<content, indexDirs, modelFile, pendingFile, env,
                   mgrVars, ini, req, hist>>
    /\ UNCHANGED <<conc, walk, boot, ingest>>

\* a save whose failure is logged and swallowed: the loop goes on
UI_Save_Swallow ==
    /\ pc = "ui_save"
    /\ \/ /\ diskIndex' = faissIndex
          /\ faissDir' = TRUE
          /\ obs' = [obs EXCEPT !.saves = @ + 1]
          /\ UNCHANGED used
       \/ /\ CanFault
          /\ obs' = ObsFault("save")
          /\ used' = Faulted
          /\ UNCHANGED <<diskIndex, faissDir>>
    /\ pc' = "ui_hash"
    /\ UNCHANGED <<content, hashRec, indexDirs, modelFile, pendingFile, env,
                   mgrVars, ini, ui, req, hist>>
    /\ UNCHANGED <<conc, walk, boot, ingest>>

\* faissIndex.save(<index-path>/faiss.index)
UI_Save ==
    /\ pc = "ui_save"
    /\ \/ /\ diskIndex' = faissIndex
          /\ faissDir' = TRUE
          /\ obs' = [obs EXCEPT !.saves = @ + 1]
          /\ pc' = "ui_hash"
          /\ UNCHANGED <<ui, used>>
       \/ /\ CanFault
          /\ \E code \in FaultCodes :
                UiThrow(handleFsOperationError("save FAISS index at", code))
          /\ obs' = ObsFault("save")
          /\ used' = Faulted
          /\ UNCHANGED <<diskIndex, faissDir>>
    /\ UNCHANGED <<content, hashRec, indexDirs, modelFile, pendingFile, env,
                   mgrVars, ini, req, hist>>
    /\ UNCHANGED <<conc, walk, boot, ingest>>

\* a loop that forgets to write the hash record
UI_WriteHash_Forget ==
    /\ pc = "ui_hash"
    /\ ui' = [ui EXCEPT !.queue = Tail(@), !.cur = Null, !.hash = Null, !.docs = {}]
    /\ pc' = "ui_next"
    /\ UNCHANGED <<fsVars, mgrVars, ini, req, obs, hist, used>>
    /\ UNCHANGED <<conc, walk, boot, ingest>>

\* fsp.writeFile(<kb>/.index/<file>, fileHash)
UI_WriteHash ==
    /\ pc = "ui_hash"
    /\ \/ /\ hashRec' = [hashRec EXCEPT ![Get(ui.cur)] = ui.hash]
          /\ obs' = [obs EXCEPT !.hashWrites = @ \cup {Get(ui.cur)}]
          /\ ui' = [ui EXCEPT !.queue = Tail(@), !.cur = Null, !.hash = Null, !.docs = {}]
          /\ pc' = "ui_next"
          /\ UNCHANGED used
       \/ /\ CanFault
          /\ \E code \in FaultCodes :
                UiThrow(handleFsOperationError("write file hash metadata to", code))
          /\ obs' = ObsFault("hashwrite")
          /\ used' = Faulted
          /\ UNCHANGED hashRec
    /\ UNCHANGED <<content, indexDirs, faissDir, diskIndex, modelFile, pendingFile, env,
                   mgrVars, ini, req, hist>>
    /\ UNCHANGED <<conc, walk, boot, ingest>>

\* a loop end that rebuilds whenever there is no store, files seen or not
UI_EndLoop_Always ==
    /\ pc = "ui_next"
    /\ ui.queue = <<>>
    /\ IF faissIndex = Null
       THEN pc' = "ui_rebuild" /\ UNCHANGED ui
       ELSE pc' = "ui_return" /\ ui' = [ui EXCEPT !.status = "ok"]
    /\ UNCHANGED <<fsVars, mgrVars, ini, req, obs, hist, used>>
    /\ UNCHANGED <<conc, walk, boot, ingest>>

\* The loop is over: rebuild when a file was seen and there is still no store.
UI_EndLoop ==
    /\ pc = "ui_next"
    /\ ui.queue = <<>>
    /\ IF faissIndex = Null /\ ui.any
       THEN pc' = "ui_rebuild" /\ UNCHANGED ui
       ELSE pc' = "ui_return" /\ ui' = [ui EXCEPT !.status = "ok"]
    /\ UNCHANGED <<fsVars, mgrVars, ini, req, obs, hist, used>>
    /\ UNCHANGED <<conc, walk, boot, ingest>>

\* "Building index from all available documents": every file of the scanned
\* knowledge bases is read and chunked again, one store is built and saved.
UI_Rebuild ==
    /\ pc = "ui_rebuild"
    /\ \E failed \in SUBSET KBs, unread \in SUBSET AllFiles :
         /\ Cardinality(failed) + Cardinality(unread) <= 1
         /\ (failed # {} \/ unread # {}) => CanFault
         /\ failed \subseteq {ui.kbs[i] : i \in 1..Len(ui.kbs)}
         /\ LET files == ScanFiles(ui.kbs, failed)
                fileSet == {files[i] : i \in 1..Len(files)}
                allDocuments == UNION {Documents(f, Get(content[f])) : f \in fileSet \ unread}
                clean == failed = {} /\ unread = {}
            IN /\ unread \subseteq fileSet
               /\ IF allDocuments = {}
                  THEN /\ ui' = [ui EXCEPT !.status = "ok"]
                       /\ pc' = "ui_return"
                       /\ obs' = IF clean THEN obs
                                 ELSE ObsFault(IF failed # {} THEN "list" ELSE "read")
                       /\ used' = IF clean THEN used ELSE Faulted
                       /\ UNCHANGED <<faissIndex, diskIndex, faissDir>>
                  ELSE \/ \* built and saved
                          /\ faissIndex' = Some(SetToBag(allDocuments))
                          /\ diskIndex' = Some(SetToBag(allDocuments))
                          /\ faissDir' = TRUE
                          /\ ui' = [ui EXCEPT !.status = "ok"]
                          /\ pc' = "ui_return"
                          /\ obs' = [(IF clean THEN obs
                                       ELSE ObsFault(IF failed # {} THEN "list" ELSE "read"))
                                       EXCEPT !.embedded = @ \cup allDocuments,
                                              !.saves = @ + 1]
                          /\ used' = IF clean THEN used ELSE Faulted
                       \/ \* FaissStore.fromTexts throws
                          /\ clean /\ CanFault
                          /\ \E code \in FaultCodes : UiThrow(RawError(code))
                          /\ obs' = ObsFault("embed")
                          /\ used' = Faulted
                          /\ UNCHANGED <<faissIndex, diskIndex, faissDir>>
                       \/ \* built, and the save fails
                          /\ clean /\ CanFault
                          /\ faissIndex' = Some(SetToBag(allDocuments))
                          /\ \E code \in FaultCodes :
                                UiThrow(handleFsOperationError("save FAISS index at", code))
                          /\ obs' = [ObsFault("save") EXCEPT !.embedded = @ \cup allDocuments]
                          /\ used' = Faulted
                          /\ UNCHANGED <<diskIndex, faissDir>>
    /\ UNCHANGED <<content, hashRec, indexDirs, modelFile, pendingFile, env,
                   provider, modelName, ini, req, hist>>
    /\ UNCHANGED <<conc, walk, boot, ingest>>

\* the record of the updateIndex call that has just returned
AfterUpdate ==
    IF ui.status = "ok"
    THEN [hist EXCEPT !.lastOk = Some(ui.scope), !.lastClean = (obs.faults = {})]
    ELSE hist

\* ======================================================== retrieve_knowledge
\* the isError result a handler makes of a caught error
ToolError(frame, e) == [frame EXCEPT !.result = "error", !.err = e]

\* an Error created with that message
Message(text) == [NoError EXCEPT !.message = text]

\* the query texts of a client: each is closest to the content of that number
Queries == Contents

\* the distance the vector store gives between a query and a stored chunk
Score(query, doc) == (query - doc[2]) * (query - doc[2])

\* handleRetrieveKnowledge asks for at most 10 results
TopK == 10

\* similaritySearch(query, k, threshold = 2)
DefaultThreshold == 2
Thresholds == {Null, Some(0)}

\* the k chunks of a set nearest to the query (every choice among equals)
Nearest(query, k, docs) ==
    IF Cardinality(docs) <= k THEN {docs}
    ELSE {S \in SUBSET docs :
            /\ Cardinality(S) = k
            /\ \A d \in S, e \in docs \ S : Score(query, d) <= Score(query, e)}

\* the threshold in force: "threshold: number = 2"
Limit(threshold) == IF threshold = Null THEN DefaultThreshold ELSE Get(threshold)

\* similaritySearch: the result of
\* faissIndex.similaritySearchWithScore(query, k, {score: {$lte: threshold}}),
\* returned as it comes. The method itself compares no score with the
\* threshold: the threshold travels as the store's filter argument, and the
\* store answers with the k nearest chunks of the whole store, taking the
\* filter into account or not.
similaritySearch(query, k, threshold) ==
    LET all == BagToSet(Get(faissIndex))
        within == {d \in all : Score(query, d) <= Limit(threshold)}
    IN Nearest(query, k, within) \cup Nearest(query, k, all)

\* handleRetrieveKnowledge: updateIndex(knowledge_base_name), then the search.
Retrieve_Start(scope) ==
    /\ pc = "idle"
    /\ req' = [ReqIdle EXCEPT !.tool = "retrieve", !.scope = scope]
    /\ StartUpdate(scope, "retrieve")
    /\ UNCHANGED <<fsVars, mgrVars, ini>>
    /\ UNCHANGED <<conc, walk, boot, ingest>>

\* a handler that goes on to the search whatever updateIndex did
Retrieve_Search_Always(query, threshold) ==
    /\ pc = "ui_return"
    /\ ui.caller = "retrieve"
    /\ IF faissIndex = Null
       THEN req' = [ToolError(req, Message("FAISS index is not initialized"))
                      EXCEPT !.searched = TRUE]
       ELSE \E found \in similaritySearch(query, TopK, threshold) :
              req' = [req EXCEPT !.result = "ok", !.searched = TRUE, !.hits = found,
                                !.query = query, !.threshold = threshold]
    /\ hist' = AfterUpdate
    /\ pc' = "respond"
    /\ UNCHANGED <<fsVars, mgrVars, ini, ui, obs, used>>
    /\ UNCHANGED <<conc, walk, boot, ingest>>

\* a search that answers with no match when there is no store
Retrieve_Search_EmptyOk(query, threshold) ==
    /\ pc = "ui_return"
    /\ ui.caller = "retrieve"
    /\ IF ui.status # "ok"
       THEN req' = ToolError(req, ui.err)
       ELSE IF faissIndex = Null
       THEN req' = [req EXCEPT !.result = "ok", !.searched = TRUE]
       ELSE \E found \in similaritySearch(query, TopK, threshold) :
              req' = [req EXCEPT !.result = "ok", !.searched = TRUE, !.hits = found,
                                !.query = query, !.threshold = threshold]
    /\ hist' = AfterUpdate
    /\ pc' = "respond"
    /\ UNCHANGED <<fsVars, mgrVars, ini, ui, obs, used>>
    /\ UNCHANGED <<conc, walk, boot, ingest>>

\* updateIndex has returned or thrown. When it threw, the catch block makes an
\* isError result of the error. Otherwise similaritySearch(query, 10, threshold)
\* runs: it throws when there is no store, and the same catch block applies.
Retrieve_Search(query, threshold) ==
    /\ pc = "ui_return"
    /\ ui.caller = "retrieve"
    /\ IF ui.status # "ok"
       THEN req' = ToolError(req, ui.err)
       ELSE IF faissIndex = Null
       THEN req' = [ToolError(req, Message("FAISS index is not initialized"))
                      EXCEPT !.searched = TRUE]
       ELSE \E found \in similaritySearch(query, TopK, threshold) :
              req' = [req EXCEPT !.result = "ok", !.searched = TRUE, !.hits = found,
                                !.query = query, !.threshold = threshold]
    /\ hist' = AfterUpdate
    /\ pc' = "respond"
    /\ UNCHANGED <<fsVars, mgrVars, ini, ui, obs, used>>
    /\ UNCHANGED <<conc, walk, boot, ingest>>

\* ================================================================ UrlManager
\* A PendingUrl record is [id, url, knowledge_base, reason, suggested_at, status].
UrlStatus == {"pending", "approved", "rejected"}

\* loadPendingUrls: the parsed file, or [] when it cannot be read or parsed
loadPendingUrls(readOk) ==
    IF readOk /\ pendingFile # Null THEN Get(pendingFile) ELSE <<>>

\* urls.findIndex((u) => u.id === id): the first match, 0 when there is none
FindIndex(urls, id) ==
    LET S == {i \in 1..Len(urls) : urls[i].id = id}
    IN IF S = {} THEN 0 ELSE CHOOSE i \in S : \A j \in S : i <= j

\* a removal that drops the record and every record after it
Splice_Truncate(urls, idx) == SubSeq(urls, 1, idx - 1)

\* a removal that keeps the record and marks it rejected
Splice_Mark(urls, idx) == [urls EXCEPT ![idx].status = "rejected"]

\* urls.splice(idx, 1)
Splice(urls, idx) == SubSeq(urls, 1, idx - 1) \o SubSeq(urls, idx + 1, Len(urls))

\* the status the persisted list gives to id ("none": no such record)
StatusOf(file, id) ==
    LET urls == IF file = Null THEN <<>> ELSE Get(file)
        idx == FindIndex(urls, id)
    IN IF idx = 0 THEN "none" ELSE urls[idx].status

\* the frame of a tool handler that starts now
ToolFrame(tool) == [ReqIdle EXCEPT !.tool = tool, !.pre = pendingFile,
                                   !.preFiles = content]

\* the frame of a handler that has called loadPendingUrls; readFailed notes
\* that the file was there and could not be read or parsed
ToolFrameRead(tool, readOk) == [ToolFrame(tool) EXCEPT !.readFailed = ~readOk]

\* suggest_url -> suggestUrl: load the list, push a new pending record under a
\* fresh id, save the list.
Suggest(url, kb) ==
    /\ pc = "idle"
    /\ Events < MaxEvents
    /\ \E readOk \in BOOLEAN :
         /\ readOk \/ (pendingFile # Null /\ Events + 1 < MaxEvents)
         /\ LET urls == loadPendingUrls(readOk)
                entry == [id |-> used.ids + 1, url |-> url, knowledge_base |-> kb,
                          reason |-> "r", suggested_at |-> used.ids + 1,
                          status |-> "pending"]
                frame == [ToolFrameRead("suggest", readOk) EXCEPT !.id = entry.id, !.url = url,
                                                      !.kb = kb]
                drawn == [used EXCEPT !.ids = @ + 1, !.suggests = @ + 1]
            IN \/ /\ pendingFile' = Some(Append(urls, entry))
                  /\ req' = [frame EXCEPT !.result = "ok", !.persisted = TRUE,
                                          !.urls = <<entry>>]
                  /\ used' = IF readOk THEN drawn ELSE [drawn EXCEPT !.faults = @ + 1]
               \/ /\ readOk /\ Events + 1 < MaxEvents
                  /\ \E code \in FaultCodes : req' = ToolError(frame, RawError(code))
                  /\ used' = [drawn EXCEPT !.faults = @ + 1]
                  /\ UNCHANGED pendingFile
    /\ pc' = "respond"
    /\ UNCHANGED <<content, hashRec, indexDirs, faissDir, diskIndex, modelFile, env,
                   mgrVars, ini, ui, obs, hist>>
    /\ UNCHANGED <<conc, walk, boot, ingest>>

\* list_pending_urls -> listPendingUrls: the pending records, in file order
ListPending ==
    /\ pc = "idle"
    /\ \E readOk \in BOOLEAN :
         /\ readOk \/ (pendingFile # Null /\ CanFault)
         /\ req' = [ToolFrameRead("list", readOk) EXCEPT
                      !.result = "ok",
                      !.urls = SelectSeq(loadPendingUrls(readOk),
                                         LAMBDA u : u.status = "pending")]
         /\ used' = IF readOk THEN used ELSE Faulted
    /\ pc' = "respond"
    /\ UNCHANGED <<fsVars, mgrVars, ini, ui, obs, hist>>
    /\ UNCHANGED <<conc, walk, boot, ingest>>

\* reject_url -> rejectUrl: remove the record with that id, save the list.
Reject(id) ==
    /\ pc = "idle"
    /\ \E readOk \in BOOLEAN :
         /\ readOk \/ (pendingFile # Null /\ CanFault)
         /\ LET urls == loadPendingUrls(readOk)
                idx == FindIndex(urls, id)
                frame == [ToolFrameRead("reject", readOk) EXCEPT
                            !.id = id, !.preStatus = StatusOf(pendingFile, id)]
            IN IF idx = 0
               THEN /\ req' = ToolError(frame, Message("No pending URL found with id"))
                    /\ used' = IF readOk THEN used ELSE Faulted
                    /\ UNCHANGED pendingFile
               ELSE \/ /\ pendingFile' = Some(Splice(urls, idx))
                       /\ req' = [frame EXCEPT !.result = "ok", !.persisted = TRUE]
                       /\ UNCHANGED used
                    \/ /\ CanFault
                       /\ \E code \in FaultCodes : req' = ToolError(frame, RawError(code))
                       /\ used' = Faulted
                       /\ UNCHANGED pendingFile
    /\ pc' = "respond"
    /\ UNCHANGED <<content, hashRec, indexDirs, faissDir, diskIndex, modelFile, env,
                   mgrVars, ini, ui, obs, hist>>
    /\ UNCHANGED <<conc, walk, boot, ingest>>

\* fetchAndConvert(url), also choosing what saveMarkdown will write: the front
\* matter (url, title, fetched_at) followed by the converted page, which is never
\* empty and never what the file holds from an earlier fetch.
fetchAndConvert(frame, nextPc) ==
    /\ Events < MaxEvents
    /\ \/ /\ \E c \in Contents :
               /\ c > 0
               /\ content[<<frame.kb, UrlFileName(frame.url)>>] # Some(c)
               /\ req' = [frame EXCEPT !.fetched = TRUE, !.markdown = c,
                                       !.steps = Append(@, "fetch")]
          /\ pc' = nextPc
          /\ used' = [used EXCEPT !.fetches = @ + 1]
       \/ /\ CanFault
          /\ req' = ToolError(frame, RawError("ETIMEDOUT"))
          /\ pc' = "respond"
          /\ used' = Faulted

\* saveMarkdown(knowledge base, url, title, markdown): <kb>/<sanitised url>.md
saveMarkdown(nextPc) ==
    \/ /\ content' = [content EXCEPT ![<<req.kb, UrlFileName(req.url)>>] = Some(req.markdown)]
       /\ req' = [req EXCEPT !.wrote = TRUE, !.steps = Append(@, "write")]
       /\ hist' = [hist EXCEPT !.lastOk = Null]
       /\ pc' = nextPc
       /\ UNCHANGED used
    \/ /\ CanFault
       /\ \E code \in FaultCodes : req' = ToolError(req, RawError(code))
       /\ pc' = "respond"
       /\ used' = Faulted
       /\ UNCHANGED <<content, hist>>

\* an approve that takes a record of any status
Approve_Start_AnyStatus(id) ==
    /\ pc = "idle"
    /\ \E readOk \in BOOLEAN :
         /\ readOk \/ (pendingFile # Null /\ CanFault)
         /\ LET urls == loadPendingUrls(readOk)
                idx == FindIndex(urls, id)
                frame == [ToolFrameRead("approve", readOk) EXCEPT
                            !.id = id, !.preStatus = StatusOf(pendingFile, id)]
            IN IF idx = 0
               THEN /\ req' = ToolError(frame, Message("No pending URL found with id"))
                    /\ pc' = "respond"
               ELSE /\ Events < MaxEvents
                    /\ req' = [frame EXCEPT !.urls = urls, !.idx = idx,
                                            !.url = urls[idx].url,
                                            !.kb = urls[idx].knowledge_base]
                    /\ pc' = "ap_fetch"
         /\ used' = IF readOk THEN used ELSE Faulted
    /\ UNCHANGED <<fsVars, mgrVars, ini, ui, obs, hist>>
    /\ UNCHANGED <<conc, walk, boot, ingest>>

\* approve_url -> approveUrl, the lookup: load the list, find the record, refuse
\* when there is none or when it is not pending.
Approve_Start(id) ==
    /\ pc = "idle"
    /\ \E readOk \in BOOLEAN :
         /\ readOk \/ (pendingFile # Null /\ CanFault)
         /\ LET urls == loadPendingUrls(readOk)
                idx == FindIndex(urls, id)
                frame == [ToolFrameRead("approve", readOk) EXCEPT
                            !.id = id, !.preStatus = StatusOf(pendingFile, id)]
            IN IF idx = 0
               THEN /\ req' = ToolError(frame, Message("No pending URL found with id"))
                    /\ pc' = "respond"
               ELSE IF urls[idx].status # "pending"
               THEN /\ req' = ToolError(frame, Message("has status, expected pending"))
                    /\ pc' = "respond"
               ELSE /\ Events < MaxEvents
                    /\ req' = [frame EXCEPT !.urls = urls, !.idx = idx,
                                            !.url = urls[idx].url,
                                            !.kb = urls[idx].knowledge_base]
                    /\ pc' = "ap_fetch"
         /\ used' = IF readOk THEN used ELSE Faulted
    /\ UNCHANGED <<fsVars, mgrVars, ini, ui, obs, hist>>
    /\ UNCHANGED <<conc, walk, boot, ingest>>

\* approveUrl: fetchAndConvert(entry.url)
Approve_Fetch ==
    /\ pc = "ap_fetch"
    /\ fetchAndConvert(req, "ap_write")
    /\ UNCHANGED <<fsVars, mgrVars, ini, ui, obs, hist>>
    /\ UNCHANGED <<conc, walk, boot, ingest>>

\* approveUrl: saveMarkdown(entry.knowledge_base, entry.url, title, markdown)
Approve_Write ==
    /\ pc = "ap_write"
    /\ saveMarkdown("ap_persist")
    /\ UNCHANGED <<hashRec, indexDirs, faissDir, diskIndex, modelFile, pendingFile, env,
                   mgrVars, ini, ui, obs>>
    /\ UNCHANGED <<conc, walk, boot, ingest>>

\* a status flip that saves the approved record alone
Approve_Persist_OnlyEntry ==
    /\ pc = "ap_persist"
    /\ \/ /\ pendingFile' = Some(<<[req.urls[req.idx] EXCEPT !.status = "approved"]>>)
          /\ req' = [req EXCEPT !.persisted = TRUE,
                                !.urls = [@ EXCEPT ![req.idx].status = "approved"],
                                !.steps = Append(@, "persist")]
          /\ pc' = "ap_reindex"
          /\ UNCHANGED used
       \/ /\ CanFault
          /\ \E code \in FaultCodes : req' = ToolError(req, RawError(code))
          /\ pc' = "respond"
          /\ used' = Faulted
          /\ UNCHANGED pendingFile
    /\ UNCHANGED <<content, hashRec, indexDirs, faissDir, diskIndex, modelFile, env,
                   mgrVars, ini, ui, obs, hist>>
    /\ UNCHANGED <<conc, walk, boot, ingest>>

\* approveUrl: entry.status = 'approved', then the list read at the start is saved
Approve_Persist ==
    /\ pc = "ap_persist"
    /\ \/ /\ pendingFile' = Some([req.urls EXCEPT ![req.idx].status = "approved"])
          /\ req' = [req EXCEPT !.persisted = TRUE,
                                !.urls = [@ EXCEPT ![req.idx].status = "approved"],
                                !.steps = Append(@, "persist")]
          /\ pc' = "ap_reindex"
          /\ UNCHANGED used
       \/ /\ CanFault
          /\ \E code \in FaultCodes : req' = ToolError(req, RawError(code))
          /\ pc' = "respond"
          /\ used' = Faulted
          /\ UNCHANGED pendingFile
    /\ UNCHANGED <<content, hashRec, indexDirs, faissDir, diskIndex, modelFile, env,
                   mgrVars, ini, ui, obs, hist>>
    /\ UNCHANGED <<conc, walk, boot, ingest>>

\* approveUrl: this.reindex(entry.knowledge_base), which is updateIndex(kb)
Approve_Reindex ==
    /\ pc = "ap_reindex"
    /\ req' = [req EXCEPT !.reindexed = TRUE, !.steps = Append(@, "reindex")]
    /\ StartUpdate(Some(req.kb), "approve")
    /\ UNCHANGED <<fsVars, mgrVars, ini>>
    /\ UNCHANGED <<conc, walk, boot, ingest>>

\* approveUrl returns, or throws what updateIndex threw, to handleApproveUrl
Approve_Return ==
    /\ pc = "ui_return"
    /\ ui.caller = "approve"
    /\ req' = IF ui.status = "ok" THEN [req EXCEPT !.result = "ok"]
              ELSE ToolError(req, ui.err)
    /\ hist' = AfterUpdate
    /\ pc' = "respond"
    /\ UNCHANGED <<fsVars, mgrVars, ini, ui, obs, used>>
    /\ UNCHANGED <<conc, walk, boot, ingest>>

\* add_url -> addUrl: fetchAndConvert(url), no pending record involved
AddUrl_Start(url, kb) ==
    /\ pc = "idle"
    /\ fetchAndConvert([ToolFrame("add") EXCEPT !.url = url, !.kb = kb], "add_write")
    /\ UNCHANGED <<fsVars, mgrVars, ini, ui, obs, hist>>
    /\ UNCHANGED <<conc, walk, boot, ingest>>

\* addUrl: saveMarkdown(knowledgeBase, url, title, markdown)
AddUrl_Write ==
    /\ pc = "add_write"
    /\ saveMarkdown("add_reindex")
    /\ UNCHANGED <<hashRec, indexDirs, faissDir, diskIndex, modelFile, pendingFile, env,
                   mgrVars, ini, ui, obs>>
    /\ UNCHANGED <<conc, walk, boot, ingest>>

\* an add that re-indexes every knowledge base instead of the one written to
AddUrl_Reindex_Unscoped ==
    /\ pc = "add_reindex"
    /\ req' = [req EXCEPT !.reindexed = TRUE, !.steps = Append(@, "reindex")]
    /\ StartUpdate(Null, "add")
    /\ UNCHANGED <<fsVars, mgrVars, ini>>
    /\ UNCHANGED <<conc, walk, boot, ingest>>

\* addUrl: this.reindex(knowledgeBase)
AddUrl_Reindex ==
    /\ pc = "add_reindex"
    /\ req' = [req EXCEPT !.reindexed = TRUE, !.steps = Append(@, "reindex")]
    /\ StartUpdate(Some(req.kb), "add")
    /\ UNCHANGED <<fsVars, mgrVars, ini>>
    /\ UNCHANGED <<conc, walk, boot, ingest>>

\* addUrl returns, or throws what updateIndex threw, to handleAddUrl
AddUrl_Return ==
    /\ pc = "ui_return"
    /\ ui.caller = "add"
    /\ req' = IF ui.status = "ok" THEN [req EXCEPT !.result = "ok"]
              ELSE ToolError(req, ui.err)
    /\ hist' = AfterUpdate
    /\ pc' = "respond"
    /\ UNCHANGED <<fsVars, mgrVars, ini, ui, obs, used>>
    /\ UNCHANGED <<conc, walk, boot, ingest>>

\* The tool result goes back to the client; the server waits for the next request.
Respond ==
    /\ pc = "respond"
    /\ pc' = "idle"
    /\ req' = ReqIdle
    /\ ui' = UiIdle
    /\ obs' = ObsIdle
    /\ UNCHANGED <<fsVars, mgrVars, ini, hist, used>>
    /\ UNCHANGED <<conc, walk, boot, ingest>>

\* ============================================================ specifications
Next ==
    \/ \E f \in SeedFiles, c \in Contents : Edit(f, c)
    \/ Crash
    \/ \E p \in Providers, m \in ModelNames : Reconfigure(p, m)
    \/ Construct
    \/ Init_Check
    \/ Init_Load
    \/ Init_Persist
    \/ Run_Ready
    \/ \E scope \in {Null} \cup {Some(k) : k \in KBs} : Retrieve_Start(scope)
    \/ UI_Next
    \/ UI_Embed
    \/ UI_Save
    \/ UI_WriteHash
    \/ UI_EndLoop
    \/ UI_Rebuild
    \/ \E query \in Queries, threshold \in Thresholds : Retrieve_Search(query, threshold)
    \/ Respond

Spec == Init /\ [][Next]_vars

\* A server that has started with nothing indexed yet: the state Spec reaches by
\* Construct, Init_Check, Init_Load, Init_Persist and Run_Ready without a failure.
Started ==
    /\ content = SeedContent
    /\ hashRec = [f \in AllFiles |-> Null]
    /\ indexDirs = {}
    /\ faissDir = TRUE
    /\ diskIndex = Null
    /\ modelFile = Some("m1")
    /\ env = [EMBEDDING_PROVIDER |-> "ollama", MODEL |-> "m1"]
    /\ pc = "idle"
    /\ provider = "ollama"
    /\ modelName = "m1"
    /\ faissIndex = Null
    /\ ini = [IniIdle EXCEPT !.status = "ok"]
    /\ ui = UiIdle
    /\ req = ReqIdle
    /\ obs = ObsIdle
    /\ hist = [lastOk |-> Null, lastClean |-> FALSE, invalidated |-> FALSE,
               persistedId |-> Some(<<"ollama", "m1">>)]
    /\ conc = ConcIdle
    /\ walk = WalkIdle
    /\ boot = BootIdle
    /\ ingest = IngestIdle

\* the record of the first suggest_url call: U1 for kb1
FirstPending == [id |-> 1, url |-> U1, knowledge_base |-> KB1, reason |-> "r",
                 suggested_at |-> 1, status |-> "pending"]

\* The started server after one suggest_url call: one URL is pending.
InitUrl ==
    /\ Started
    /\ pendingFile = Some(<<FirstPending>>)
    /\ used = [edits |-> 0, faults |-> 0, crashes |-> 0, reconfigs |-> 0,
               suggests |-> 0, fetches |-> 0, ids |-> 1]

\* the ids a client may name: those drawn, and at least one never drawn
Ids == 1..(MaxEvents + 2)

NextUrl ==
    \/ \E url \in URLs, kb \in KBs : Suggest(url, kb)
    \/ ListPending
    \/ \E id \in Ids : Reject(id)
    \/ \E id \in Ids : Approve_Start(id)
    \/ Approve_Fetch
    \/ Approve_Write
    \/ Approve_Persist
    \/ Approve_Reindex
    \/ Approve_Return
    \/ \E url \in URLs, kb \in KBs : AddUrl_Start(url, kb)
    \/ AddUrl_Write
    \/ AddUrl_Reindex
    \/ AddUrl_Return
    \/ UI_Next
    \/ UI_Embed
    \/ UI_Save
    \/ UI_WriteHash
    \/ UI_EndLoop
    \/ UI_Rebuild
    \/ Respond

SpecUrl == InitUrl /\ [][NextUrl]_vars

\* ======================================================= overlapping calls
\* The CallTool callback is an async function that the server object invokes
\* for every request it receives; nothing in it waits for an earlier
\* invocation. Here each slot of Tasks is one invocation of retrieve_knowledge,
\* and updateIndex is cut at the awaits after which it touches shared state.
Task(t) == conc.task[t]

SetTask(t, frame) ==
    conc' = [conc EXCEPT !.task[t] = frame,
                         !.overlapped = @ \/ \E u \in Tasks \ {t} : Task(u).pc # "idle"]

\* a request arrives: handleRetrieveKnowledge calls updateIndex(scope), which
\* lists the knowledge bases to scan
Race_Call(t, scope) ==
    /\ pc = "idle"
    /\ Task(t).pc = "idle"
    /\ LET kbs == IF scope # Null THEN <<Get(scope)>> ELSE RootEntries
       IN SetTask(t, [TaskIdle EXCEPT !.pc = "next", !.scope = scope,
                                      !.queue = ScanFiles(kbs, {})])
    /\ UNCHANGED <<fsVars, pc, mgrVars, ini, ui, req, obs, hist, used>>
    /\ UNCHANGED <<walk, boot, ingest>>

\* one pass of the per-file loop up to "if (this.faissIndex === null)": the
\* file is hashed and compared with its record, read and chunked, and the
\* branch is chosen; the embedding call that follows is awaited
Race_Next(t) ==
    /\ Task(t).pc = "next"
    /\ Task(t).queue # <<>>
    /\ LET f == Head(Task(t).queue)
           fileHash == SHA256(Get(content[f]))
           docs == Documents(f, Get(content[f]))
           next == [Task(t) EXCEPT !.queue = Tail(@), !.any = TRUE]
       IN IF ~HasChanged(fileHash, hashRec[f]) \/ docs = {}
          THEN SetTask(t, next)
          ELSE SetTask(t, [next EXCEPT !.cur = Some(f), !.hash = Some(fileHash),
                                       !.docs = docs, !.stale = FALSE,
                                       !.pc = IF faissIndex = Null THEN "create"
                                              ELSE "add"])
    /\ indexDirs' = indexDirs \cup {Head(Task(t).queue)[1]}
    /\ UNCHANGED <<content, hashRec, faissDir, diskIndex, modelFile, pendingFile, env,
                   pc, mgrVars, ini, ui, req, obs, hist, used>>
    /\ UNCHANGED <<walk, boot, ingest>>

\* the store object that a call waiting in addDocuments holds is no longer the
\* one in this.faissIndex once another call has assigned a new store
Replaced(t, frame) ==
    conc' = [conc EXCEPT !.task = [u \in Tasks |->
                IF u = t THEN frame
                ELSE IF Task(u).pc = "add" THEN [Task(u) EXCEPT !.stale = TRUE]
                ELSE Task(u)]]

\* FaissStore.fromTexts resolves and the new store is assigned to
\* this.faissIndex, whatever that field holds by now
Race_Create(t) ==
    /\ Task(t).pc = "create"
    /\ faissIndex' = Some(SetToBag(Task(t).docs))
    /\ Replaced(t, [Task(t) EXCEPT !.pc = "save"])
    /\ UNCHANGED <<fsVars, pc, provider, modelName, ini, ui, req, obs, hist, used>>
    /\ UNCHANGED <<walk, boot, ingest>>

\* addDocuments resolves: the chunks are in the store object the call was
\* made on
Race_Add(t) ==
    /\ Task(t).pc = "add"
    /\ faissIndex' = IF Task(t).stale THEN faissIndex
                     ELSE Some(Get(faissIndex) (+) SetToBag(Task(t).docs))
    /\ SetTask(t, [Task(t) EXCEPT !.pc = "save"])
    /\ UNCHANGED <<fsVars, pc, provider, modelName, ini, ui, req, obs, hist, used>>
    /\ UNCHANGED <<walk, boot, ingest>>

\* this.faissIndex.save(...): the store now in the field is written
Race_Save(t) ==
    /\ Task(t).pc = "save"
    /\ diskIndex' = faissIndex
    /\ SetTask(t, [Task(t) EXCEPT !.pc = "hash"])
    /\ UNCHANGED <<content, hashRec, indexDirs, faissDir, modelFile, pendingFile, env,
                   pc, mgrVars, ini, ui, req, obs, hist, used>>
    /\ UNCHANGED <<walk, boot, ingest>>

\* the hash record of the file is written; on to the next file
Race_WriteHash(t) ==
    /\ Task(t).pc = "hash"
    /\ hashRec' = [hashRec EXCEPT ![Get(Task(t).cur)] = Task(t).hash]
    /\ SetTask(t, [Task(t) EXCEPT !.pc = "next", !.cur = Null, !.hash = Null,
                                  !.docs = {}])
    /\ UNCHANGED <<content, indexDirs, faissDir, diskIndex, modelFile, pendingFile, env,
                   pc, mgrVars, ini, ui, req, obs, hist, used>>
    /\ UNCHANGED <<walk, boot, ingest>>

\* the loop is over: when there is still no store and a file was seen, all
\* files of the scanned knowledge bases are read and chunked for a rebuild
Race_EndLoop(t) ==
    /\ Task(t).pc = "next"
    /\ Task(t).queue = <<>>
    /\ LET kbs == IF Task(t).scope # Null THEN <<Get(Task(t).scope)>> ELSE RootEntries
           files == ScanFiles(kbs, {})
           allDocuments == UNION {Documents(files[i], Get(content[files[i]])) :
                                    i \in 1..Len(files)}
       IN IF faissIndex = Null /\ Task(t).any /\ allDocuments # {}
          THEN SetTask(t, [Task(t) EXCEPT !.pc = "rebuild", !.docs = allDocuments])
          ELSE SetTask(t, [Task(t) EXCEPT !.pc = "return"])
    /\ UNCHANGED <<fsVars, pc, mgrVars, ini, ui, req, obs, hist, used>>
    /\ UNCHANGED <<walk, boot, ingest>>

\* the rebuild: FaissStore.fromTexts resolves and the store is assigned
Race_Rebuild(t) ==
    /\ Task(t).pc = "rebuild"
    /\ faissIndex' = Some(SetToBag(Task(t).docs))
    /\ Replaced(t, [Task(t) EXCEPT !.pc = "rebuild_save"])
    /\ UNCHANGED <<fsVars, pc, provider, modelName, ini, ui, req, obs, hist, used>>
    /\ UNCHANGED <<walk, boot, ingest>>

\* the rebuild: the store is saved
Race_RebuildSave(t) ==
    /\ Task(t).pc = "rebuild_save"
    /\ diskIndex' = faissIndex
    /\ SetTask(t, [Task(t) EXCEPT !.pc = "return"])
    /\ UNCHANGED <<content, hashRec, indexDirs, faissDir, modelFile, pendingFile, env,
                   pc, mgrVars, ini, ui, req, obs, hist, used>>
    /\ UNCHANGED <<walk, boot, ingest>>

\* updateIndex returns; the handler searches and answers its request
Race_Return(t) ==
    /\ Task(t).pc = "return"
    /\ SetTask(t, TaskIdle)
    /\ UNCHANGED <<fsVars, pc, mgrVars, ini, ui, req, obs, hist, used>>
    /\ UNCHANGED <<walk, boot, ingest>>

\* A server restarted under another model name after kb1 was indexed: the state
\* Spec reaches from Started by retrieve_knowledge for kb1, Crash,
\* Reconfigure("ollama", "m2") and a start without a failure.
StartedAfterDrift ==
    /\ content = SeedContent
    /\ hashRec = [f \in AllFiles |-> IF f \in {<<KB1, AMd>>, <<KB1, BTxt>>}
                                     THEN Some(SHA256(1)) ELSE Null]
    /\ indexDirs = {KB1}
    /\ faissDir = TRUE
    /\ diskIndex = Null
    /\ modelFile = Some("m2")
    /\ env = [EMBEDDING_PROVIDER |-> "ollama", MODEL |-> "m2"]
    /\ pc = "idle"
    /\ provider = "ollama"
    /\ modelName = "m2"
    /\ faissIndex = Null
    /\ ini = [IniIdle EXCEPT !.status = "ok"]
    /\ ui = UiIdle
    /\ req = ReqIdle
    /\ obs = ObsIdle
    /\ hist = [lastOk |-> Null, lastClean |-> FALSE, invalidated |-> TRUE,
               persistedId |-> Some(<<"ollama", "m2">>)]
    /\ conc = ConcIdle
    /\ walk = WalkIdle
    /\ boot = BootIdle
    /\ ingest = IngestIdle

NoneUsed == [edits |-> 0, faults |-> 0, crashes |-> 0, reconfigs |-> 0,
             suggests |-> 0, fetches |-> 0, ids |-> 0]

\* The server is up, freshly or after the restart, and requests come in.
InitRace ==
    /\ pendingFile = Null
    /\ \/ Started /\ used = NoneUsed
       \/ StartedAfterDrift /\ used = [NoneUsed EXCEPT !.crashes = 1, !.reconfigs = 1]

NextRace ==
    \/ \E t \in Tasks, scope \in {Null} \cup {Some(k) : k \in KBs} : Race_Call(t, scope)
    \/ \E t \in Tasks : Race_Next(t)
    \/ \E t \in Tasks : Race_Create(t)
    \/ \E t \in Tasks : Race_Add(t)
    \/ \E t \in Tasks : Race_Save(t)
    \/ \E t \in Tasks : Race_WriteHash(t)
    \/ \E t \in Tasks : Race_EndLoop(t)
    \/ \E t \in Tasks : Race_Rebuild(t)
    \/ \E t \in Tasks : Race_RebuildSave(t)
    \/ \E t \in Tasks : Race_Return(t)

SpecRace == InitRace /\ [][NextRace]_vars

\* ---------------------------------------------- getFilesRecursively, applied
\* updateIndex asks for the files of a knowledge-base directory:
\* "const filePaths = await getFilesRecursively(knowledgeBasePath)"
Tree_Call ==
    /\ walk.phase = "call"
    /\ LET r == getFilesRecursivelyIn(walk.tree, walk.unreadable, RootPath)
       IN walk' = [walk EXCEPT !.phase = IF r.thrown THEN "thrown" ELSE "returned",
                               !.files = r.files, !.logged = r.logged,
                               !.thrown = r.thrown, !.queue = r.files]
    /\ UNCHANGED <<fsVars, pc, mgrVars, ini, ui, req, obs, hist, used, conc, boot,
                   ingest>>

\* "for (const filePath of filePaths)": the next path returned is taken,
\* anyFileProcessed is set and the file is hashed
Tree_Visit ==
    /\ walk.phase = "returned" /\ walk.queue # <<>>
    /\ walk' = [walk EXCEPT !.queue = Tail(@), !.anyFileProcessed = TRUE,
                            !.hashed = @ \cup {Head(walk.queue)}]
    /\ UNCHANGED <<fsVars, pc, mgrVars, ini, ui, req, obs, hist, used, conc, boot,
                   ingest>>

\* the loop over the returned paths ends
Tree_Done ==
    /\ walk.phase = "returned" /\ walk.queue = <<>>
    /\ walk' = [walk EXCEPT !.phase = "done"]
    /\ UNCHANGED <<fsVars, pc, mgrVars, ini, ui, req, obs, hist, used, conc, boot,
                   ingest>>

\* any tree, and any set of its directories that cannot be listed (missing,
\* not permitted, not a directory when the root is concerned)
InitTree ==
    /\ InitServer
    /\ \E tree \in Trees : \E unreadable \in SUBSET DirsOf(tree) :
          walk = [WalkIdle EXCEPT !.tree = tree, !.unreadable = unreadable]
    /\ boot = BootIdle
    /\ ingest = IngestIdle

NextTree == Tree_Call \/ Tree_Visit \/ Tree_Done

SpecTree == InitTree /\ [][NextTree]_vars

\* ------------------------------------------------------ constructor, applied
\* new KnowledgeBaseServer() constructs the manager from the environment
Boot_Construct ==
    /\ boot.phase = "new"
    /\ LET r == constructor(boot.env)
       IN boot' = [boot EXCEPT !.phase = r.outcome, !.outcome = r.outcome,
                               !.error = r.error, !.manager = r.manager,
                               !.made = r.manager]
    /\ UNCHANGED <<fsVars, pc, mgrVars, ini, ui, req, obs, hist, used, conc, walk,
                   ingest>>

\* the environment of the running process is changed (process.env is assigned,
\* a credential is rotated): the constants of config.ts and the fields of the
\* manager were read before
Boot_Setenv(name, value) ==
    /\ boot.phase = "constructed" /\ ~boot.envChanged
    /\ boot.env[name] # value
    /\ boot' = [boot EXCEPT !.env[name] = value, !.envChanged = TRUE]
    /\ UNCHANGED <<fsVars, pc, mgrVars, ini, ui, req, obs, hist, used, conc, walk,
                   ingest>>

\* the manager embeds (embedDocuments / embedQuery of this.embeddings)
Boot_Embed ==
    /\ boot.phase = "constructed" /\ boot.embedsWith = "none"
    /\ boot' = [boot EXCEPT !.embedsWith = boot.manager.embeddings]
    /\ UNCHANGED <<fsVars, pc, mgrVars, ini, ui, req, obs, hist, used, conc, walk,
                   ingest>>

InitBoot ==
    /\ InitServer
    /\ walk = WalkIdle
    /\ \E e \in ProcessEnvs : boot = [BootIdle EXCEPT !.env = e]
    /\ ingest = IngestIdle

NextBoot ==
    \/ Boot_Construct
    \/ \E change \in {<<"EMBEDDING_PROVIDER", Some("ollama")>>, <<"OLLAMA_MODEL", Some("m2")>>,
                      <<"HUGGINGFACE_API_KEY", Null>>} : Boot_Setenv(change[1], change[2])
    \/ Boot_Embed

SpecBoot == InitBoot /\ [][NextBoot]_vars

\* ----------------------------------------------------- saveMarkdown, applied
\* the path saveMarkdown writes for a URL: <root>/<kb>/<sanitised url>.md
FilePathOf(job) == <<job.kb, UrlFileName(job.url)>>

\* fsp.writeFile(filePath, frontmatter + markdown): the file of that path now
\* holds the page of this URL, whatever it held
writeFile(files, job) ==
    {f \in files : f.path # FilePathOf(job)} \cup {[path |-> FilePathOf(job), url |-> job.url]}

\* approveUrl or addUrl has fetched the next URL and saves its page
Ingest_Save ==
    /\ ingest.todo # <<>>
    /\ ingest' = [ingest EXCEPT !.todo = Tail(@), !.done = Append(@, Head(ingest.todo)),
                                !.files = writeFile(@, Head(ingest.todo))]
    /\ UNCHANGED <<fsVars, pc, mgrVars, ini, ui, req, obs, hist, used, conc, walk, boot>>

InitIngest ==
    /\ InitServer
    /\ walk = WalkIdle
    /\ boot = BootIdle
    /\ \E u1 \in IngestUrls, u2 \in IngestUrls, k1 \in KBs, k2 \in KBs :
          ingest = [IngestIdle EXCEPT !.todo = <<[url |-> u1, kb |-> k1],
                                                 [url |-> u2, kb |-> k2]>>]

SpecIngest == InitIngest /\ [][Ingest_Save]_vars

\* ==================================================================== claims
StoreDocs(store) == IF store = Null THEN {} ELSE BagToSet(Get(store))

\* the documents of the version of f whose digest is h
DocsOfDigest(f, h) == UNION {Documents(f, c) : c \in {d \in Contents : SHA256(d) = h}}

Present(kb) == {f \in AllFiles : f[1] = kb /\ content[f] # Null}
CurrentDocs(f) == Documents(f, Get(content[f]))
CurrentHash(f) == Some(SHA256(Get(content[f])))

\* the step taken leaves the updateIndex call between embedding and hash write
\* by a failed save or by the process stopping
StopsBeforeHashWrite ==
    /\ pc \in {"ui_save", "ui_hash"}
    /\ pc' = "down" \/ (pc = "ui_save" /\ pc' = "ui_return")

\* C1: a hash record is written with digest h only by the hash-write step of
\* updateIndex, after a save of this call has put a store holding the chunks of
\* the content with digest h on disk; when the save fails or the process stops
\* between save and hash write, every hash record keeps its value, so a file
\* whose record differed from its digest is still seen as changed.
C1_HashOnlyAfterSave ==
    [][ /\ \A f \in AllFiles :
              hashRec'[f] # hashRec[f] =>
                 /\ pc = "ui_hash" /\ ui.cur = Some(f)
                 /\ hashRec'[f] = CurrentHash(f)
                 /\ obs.saves > 0
                 /\ diskIndex # Null
                 /\ DocsOfDigest(f, Get(hashRec'[f])) # {}
                 /\ DocsOfDigest(f, Get(hashRec'[f])) \subseteq StoreDocs(diskIndex)
        /\ StopsBeforeHashWrite =>
              /\ hashRec' = hashRec
              /\ LET f == Get(ui.cur)
                 IN obs.startHash[f] # ui.hash =>
                       /\ hashRec'[f] = obs.startHash[f]
                       /\ HasChanged(SHA256(Get(content'[f])), hashRec'[f])
      ]_vars

\* C1 witness: the process stopped after the save and before the hash write:
\* the store on disk holds the chunks of a file that has no hash record.
C1_Witness ==
    /\ pc = "down" /\ used.faults = 0
    /\ \E f \in AllFiles :
          /\ content[f] # Null /\ hashRec[f] = Null
          /\ CurrentDocs(f) # {}
          /\ CurrentDocs(f) \subseteq StoreDocs(diskIndex)

\* the number of embedding calls, saves and hash writes of the running call is 0
NothingDone == obs.embedded = {} /\ obs.saves = 0 /\ obs.hashWrites = {}

OnlyModified(kb, f) ==
    /\ f \in Present(kb)
    /\ obs.startHash[f] # Null /\ obs.startHash[f] # CurrentHash(f)
    /\ \A g \in Present(kb) \ {f} : obs.startHash[g] = CurrentHash(g)

\* what C3 promises for the modified file f
OnlyThatFileIndexed(f) ==
    /\ obs.embedded = CurrentDocs(f)
    /\ obs.saves = 1
    /\ hashRec[f] = CurrentHash(f)
    /\ \A g \in AllFiles \ {f} : hashRec[g] = obs.startHash[g]

C4_Claim ==
    (pc = "init_return" /\ ini.status = "ok" /\ ini.mismatch /\ used.faults = 0)
       => (diskIndex = Null /\ faissIndex = Null)

\* C5 as claimed (already when no I/O fails): when the first updateIndex() over
\* all knowledge bases after an invalidating initialize() returns successfully,
\* the store holds the chunks of the current content of every file.
C5_Claim ==
    (pc = "ui_return" /\ ui.status = "ok" /\ ui.afterDrift /\ used.faults = 0)
       => \A f \in AllFiles :
             content[f] # Null => /\ CurrentDocs(f) \subseteq StoreDocs(faissIndex)
                                  /\ CurrentDocs(f) \subseteq StoreDocs(diskIndex)

\* C6 as claimed (already when no I/O fails): a hash record with value h exists
\* only if the chunks of the version with digest h are in the persisted store.
C6_Claim ==
    used.faults = 0 =>
       \A f \in AllFiles :
          hashRec[f] # Null => DocsOfDigest(f, Get(hashRec[f])) \subseteq StoreDocs(diskIndex)

\* C7 as claimed: a failure of hashing, reading or embedding one file does not
\* make updateIndex fail.
C7_Claim ==
    (pc = "ui_return" /\ obs.faults \cap {"hash", "read", "embed"} # {})
       => ui.status = "ok"

ActionOfStep(step) ==
    IF step = "save" THEN "save FAISS index at"
    ELSE IF step = "mkdir" THEN "create index metadata directory"
    ELSE "write file hash metadata to"

\* C8: when the save of the store, the creation of an .index directory or the
\* write of a hash record fails, updateIndex is over: it has failed at the file
\* it was at, with the "Permission denied while attempting to <action>" error
\* for EACCES/EPERM/EROFS (the original error otherwise), no later file of the
\* scan was embedded or got a hash record, and the file whose save failed has
\* the hash record it had.
C8_StructuralFailureAborts ==
    \A step \in {"save", "mkdir", "hashwrite"} :
       step \in obs.faults =>
          /\ pc \in {"ui_return", "respond"}
          /\ ui.status = "failed"
          /\ ui.err.alreadyLogged
          /\ isPermissionError(ui.err.code) =>
                /\ ui.err.message = "Permission denied while attempting to"
                /\ ui.err.action = ActionOfStep(step)
          /\ ~isPermissionError(ui.err.code) => ui.err.message = ui.err.code
          /\ \A i \in 2..Len(ui.queue) :
                /\ hashRec[ui.queue[i]] = obs.startHash[ui.queue[i]]
                /\ CurrentDocs(ui.queue[i]) \cap obs.embedded = {}
          /\ (step = "save" /\ ui.cur # Null) =>
                /\ Head(ui.queue) = Get(ui.cur)
                /\ hashRec[Get(ui.cur)] = obs.startHash[Get(ui.cur)]
          /\ (step = "save" /\ ui.cur = Null) => hashRec = obs.startHash

\* C8 witness: a save was denied while files were still to be scanned.
C8_Witness ==
    /\ pc = "ui_return" /\ "save" \in obs.faults
    /\ ui.err.message = "Permission denied while attempting to"
    /\ ui.cur # Null /\ Len(ui.queue) > 1

\* the running approve left everything as it found it
ApproveTouchedNothing ==
    /\ pendingFile = req.pre
    /\ content = req.preFiles
    /\ ~req.fetched /\ ~req.wrote /\ ~req.persisted /\ ~req.reindexed

\* C9 as claimed: approve on a pending record either succeeds, with the file
\* written, the record persisted as approved and the knowledge base re-indexed,
\* or fails with the record still pending and no file written; in particular an
\* approve that reports an error never leaves the record persisted as approved.
C9_Claim ==
    (pc = "respond" /\ req.tool = "approve" /\ req.preStatus = "pending") =>
       \/ /\ req.result = "ok"
          /\ req.wrote /\ req.reindexed
          /\ StatusOf(pendingFile, req.id) = "approved"
       \/ /\ req.result = "error"
          /\ ~req.wrote
          /\ StatusOf(pendingFile, req.id) = "pending"

\* C10: an approve of an id that has no record, or whose record is not pending,
\* is over at once with an error: the persisted list and every knowledge-base
\* file are what they were, nothing was fetched, written or re-indexed.
C10_ApproveRefused ==
    (req.tool = "approve" /\ req.preStatus # "pending") =>
       /\ pc = "respond"
       /\ req.result = "error"
       /\ req.err.message \in {"No pending URL found with id",
                               "has status, expected pending"}
       /\ ApproveTouchedNothing

\* C10 witness: an already approved id is approved again and refused.
C10_Witness ==
    /\ pc = "respond" /\ req.tool = "approve" /\ req.preStatus = "approved"
    /\ req.result = "error"
    /\ req.err.message = "has status, expected pending"
    /\ used.faults = 0

\* the steps of an approve, in the order of approveUrl
ApproveSteps == <<"fetch", "write", "persist", "reindex">>

IsPrefix(s, t) == Len(s) <= Len(t) /\ s = SubSeq(t, 1, Len(s))

\* C11: an approve goes through fetch-and-convert, file write, status flip and
\* re-index in that order, each once; when it has returned successfully the
\* file of the record's URL exists under the record's knowledge base, the
\* persisted list is the list found at the start with that record's status
\* set to approved (same position, other fields and other records as they
\* were), and updateIndex has run once, for exactly that knowledge base.
C11_ApproveSucceeds ==
    req.tool = "approve" =>
       /\ IsPrefix(req.steps, ApproveSteps)
       /\ (pc = "respond" /\ req.result = "ok") =>
             LET before == Get(req.pre)
                 entry == before[req.idx]
             IN /\ req.steps = ApproveSteps
                /\ entry.id = req.id
                /\ content[<<entry.knowledge_base, UrlFileName(entry.url)>>] # Null
                /\ pendingFile = Some([before EXCEPT ![req.idx].status = "approved"])
                /\ ui.caller = "approve" /\ ui.status = "ok"
                /\ ui.scope = Some(entry.knowledge_base)

\* C11 witness: a successful approve of the second of two records.
C11_Witness ==
    /\ pc = "respond" /\ req.tool = "approve" /\ req.result = "ok"
    /\ req.idx = 2 /\ Len(Get(pendingFile)) = 2
    /\ Get(pendingFile)[1].status = "pending"

\* the persisted pending list ([] when there is no file)
ListOf(file) == IF file = Null THEN <<>> ELSE Get(file)

\* C12 as claimed: a record that is approved when a tool call starts is in the
\* persisted list, with status approved and the same fields, at every point of
\* that call and after it, whatever the tool.
C12_Claim ==
    req.tool # "none" =>
       \A i \in 1..Len(ListOf(req.pre)) :
          ListOf(req.pre)[i].status = "approved" =>
             \E j \in 1..Len(ListOf(pendingFile)) :
                ListOf(pendingFile)[j] = ListOf(req.pre)[i]

\* C13: reject_url is over in one step and never fetches, writes a
\* knowledge-base file or re-indexes; it fails, the list unchanged, when no
\* record has the id, and whenever it fails the list is unchanged; when it
\* succeeds exactly the record with the id is gone, every other record and
\* the order are kept and no record has the id any more; without an I/O
\* failure a reject of an existing id succeeds.
C13_Reject ==
    req.tool = "reject" =>
       LET before == ListOf(req.pre)
           after == ListOf(pendingFile)
           idx == FindIndex(before, req.id)
       IN /\ pc = "respond"
          /\ content = req.preFiles /\ req.steps = <<>> /\ ui = UiIdle
          /\ ~req.fetched /\ ~req.wrote /\ ~req.reindexed
          /\ req.preStatus = "none" => req.result = "error"
          /\ req.result = "error" => pendingFile = req.pre
          /\ (req.preStatus # "none" /\ used.faults = 0) => req.result = "ok"
          /\ req.result = "ok" =>
                /\ idx > 0
                /\ Len(after) = Len(before) - 1
                /\ \A j \in 1..Len(after) :
                      after[j] = IF j < idx THEN before[j] ELSE before[j + 1]
                /\ StatusOf(pendingFile, req.id) = "none"

\* C13 witness: the first of two records is rejected, the second is kept.
C13_Witness ==
    /\ pc = "respond" /\ req.tool = "reject" /\ req.result = "ok"
    /\ Len(ListOf(req.pre)) = 2 /\ ListOf(req.pre)[1].id = req.id
    /\ ListOf(pendingFile) = <<ListOf(req.pre)[2]>>

\* C14 as claimed: a suggest that succeeds leaves the persisted list as the list
\* found at the start with one new pending record appended, whose id no earlier
\* record has, and returns that record; one that fails leaves the list as it
\* was; no page is fetched, no knowledge-base file written, nothing re-indexed.
C14_Claim ==
    (pc = "respond" /\ req.tool = "suggest") =>
       LET before == ListOf(req.pre)
       IN /\ content = req.preFiles /\ req.steps = <<>> /\ ui = UiIdle
          /\ req.result = "error" => pendingFile = req.pre
          /\ req.result = "ok" =>
                /\ Len(req.urls) = 1
                /\ req.urls[1].status = "pending"
                /\ \A i \in 1..Len(before) : before[i].id # req.urls[1].id
                /\ ListOf(pendingFile) = Append(before, req.urls[1])

\* the records of a list that are pending, in the order of the list
PendingOf(urls) == SelectSeq(urls, LAMBDA u : u.status = "pending")

\* C15 as claimed: a listing returns exactly the pending records of the list
\* that is persisted, in file order, and leaves the persisted list as it was.
C15_Claim ==
    (pc = "respond" /\ req.tool = "list") =>
       /\ pendingFile = req.pre
       /\ req.result = "ok"
       /\ req.urls = PendingOf(ListOf(pendingFile))

AddSteps == <<"fetch", "write", "reindex">>

\* C16: during and after an add_url call the persisted pending list is the one
\* found at the start, whether the call succeeds or fails; the steps run in the
\* order fetch, write, reindex, each at most once; the reindex is updateIndex
\* for the knowledge base of the call and starts only once the file exists; a
\* call that succeeds has run all three steps; when the fetch or the write
\* fails updateIndex is not entered.
C16_AddDirect ==
    req.tool = "add" =>
       /\ pendingFile = req.pre
       /\ IsPrefix(req.steps, AddSteps)
       /\ ~req.wrote => (ui = UiIdle /\ ~req.reindexed)
       /\ req.reindexed =>
             /\ req.steps = AddSteps
             /\ ui.caller = "add" /\ ui.scope = Some(req.kb)
             /\ content[<<req.kb, UrlFileName(req.url)>>] # Null
       /\ (pc = "respond" /\ req.result = "ok") =>
             (req.steps = AddSteps /\ ui.status = "ok")

\* an add_url call into kb2 has succeeded while a URL was pending
C16_Witness ==
    /\ pc = "respond" /\ req.tool = "add" /\ req.result = "ok"
    /\ req.kb = KB2 /\ req.reindexed
    /\ content[<<KB2, UrlFileName(req.url)>>] # Null
    /\ Len(ListOf(pendingFile)) = 1

\* C19: in a retrieve_knowledge call the search runs only once updateIndex,
\* called by this handler for the requested scope, has returned successfully;
\* when updateIndex fails there is no search, nothing is returned, and the
\* handler answers with an isError result.
C19_SearchAfterUpdate ==
    req.tool = "retrieve" =>
       /\ req.searched =>
             /\ pc = "respond"
             /\ ui.status = "ok" /\ ui.caller = "retrieve" /\ ui.scope = req.scope
       /\ (pc = "respond" /\ ui.status # "ok") =>
             (~req.searched /\ req.hits = {} /\ req.result = "error")
       /\ pc = "respond" => req.result \in {"ok", "error"}

\* a retrieve whose updateIndex failed although there was a store to search
C19_Witness ==
    /\ pc = "respond" /\ req.tool = "retrieve"
    /\ ui.status = "failed" /\ faissIndex # Null
    /\ req.result = "error"

\* C20 as claimed: a retrieve for knowledge base K returns only chunks whose
\* source file lies inside K.
C20_Claim ==
    (pc = "respond" /\ req.tool = "retrieve" /\ req.scope # Null) =>
       \A d \in req.hits : d[1][1] = Get(req.scope)

\* the handler invocations in progress
InProgress == {t \in Tasks : Task(t).pc # "idle"}

\* C17 as claimed: at no time are two tool handlers, and so two updateIndex
\* calls, in progress at once.
C17_Claim == Cardinality(InProgress) <= 1

\* a hash record is there for a version of a file whose chunks the store lacks
LostWrite ==
    \E f \in AllFiles :
       /\ hashRec[f] # Null
       /\ ~(DocsOfDigest(f, Get(hashRec[f])) \subseteq StoreDocs(faissIndex))

\* two overlapping updateIndex calls on a fresh server have both returned and
\* a write is lost
RaceLosesWrite ==
    /\ conc.overlapped /\ InProgress = {} /\ ~hist.invalidated
    /\ faissIndex # Null /\ diskIndex = faissIndex
    /\ LostWrite

\* calls on a fresh server that never overlapped lose no write
SerializedKeepsWrites ==
    (~conc.overlapped /\ ~hist.invalidated) => ~LostWrite

\* C18 as claimed, the serialized half: when calls never overlap, an
\* updateIndex call that starts from a null handle and returns successfully
\* with a store (no I/O failing) leaves no hash record whose chunks the
\* in-memory or the persisted store lacks.
C18_Claim ==
    (/\ pc = "ui_return" /\ ui.status = "ok" /\ obs.startNull /\ faissIndex # Null
     /\ used.faults = 0 /\ ~conc.overlapped)
       => \A f \in AllFiles :
             hashRec[f] # Null =>
                /\ DocsOfDigest(f, Get(hashRec[f])) \subseteq StoreDocs(faissIndex)
                /\ DocsOfDigest(f, Get(hashRec[f])) \subseteq StoreDocs(diskIndex)

\* the files of knowledge base kb
FilesOf(kb) == {f \in AllFiles : f[1] = kb}

\* C21: while updateIndex(name) runs and when it has returned, the files it has
\* queued, the file it works on, the chunks it embedded (in the loop or in the
\* fallback rebuild) and the hash records it wrote all belong to knowledge base
\* name, and every hash record of another knowledge base is as it was at the
\* start; updateIndex() scans the entries of the root directory, and when it
\* returns successfully with no I/O failing every non-hidden file that yields a
\* chunk has the hash record of its current content.
C21_Scope ==
    ui.status # "none" =>
       /\ ui.scope # Null =>
             LET name == Get(ui.scope)
             IN /\ \A i \in 1..Len(ui.queue) : ui.queue[i][1] = name
                /\ ui.cur # Null => Get(ui.cur)[1] = name
                /\ \A d \in obs.embedded \cup ui.docs : d[1][1] = name
                /\ obs.hashWrites \subseteq FilesOf(name)
                /\ \A f \in AllFiles \ FilesOf(name) : hashRec[f] = obs.startHash[f]
       /\ (ui.scope = Null /\ ui.status # "failed") =>
             /\ ui.kbs = RootEntries
             /\ \A i \in 1..Len(ui.queue) : ~StartsWithDot(ui.queue[i][1])
             /\ (pc = "ui_return" /\ used.faults = 0) =>
                   \A f \in AllFiles :
                      (content[f] # Null /\ ~StartsWithDot(f[1]) /\ CurrentDocs(f) # {})
                         => hashRec[f] = CurrentHash(f)

\* updateIndex(kb1) has indexed kb1 and returned while a file of kb2 that
\* yields a chunk has no hash record
C21_Witness ==
    /\ pc = "ui_return" /\ ui.status = "ok" /\ ui.scope = Some(KB1)
    /\ obs.hashWrites # {}
    /\ content[<<KB2, AMd>>] = Some(1) /\ hashRec[<<KB2, AMd>>] = Null

\* C22 as claimed (already when no I/O fails): an updateIndex call that saw a
\* file, found the handle null at the end of its loop and returned successfully
\* has built a store and has saved it exactly once.
C22_Claim ==
    (/\ pc = "ui_return" /\ ui.status = "ok" /\ used.faults = 0
     /\ ui.any /\ obs.startNull /\ obs.hashWrites = {})
       => (faissIndex # Null /\ diskIndex = faissIndex /\ obs.saves = 1)

\* the chunks of every file in the knowledge bases the running call scans
ScannedDocs ==
    LET files == ScanFiles(ui.kbs, {})
    IN UNION {CurrentDocs(files[i]) : i \in 1..Len(files)}

\* C22, amended: the fallback is entered exactly when the loop ends with a file
\* seen and the handle still null; it changes no hash record; it builds only
\* from chunks of files of the scanned knowledge bases, and when nothing fails
\* and at least one chunk exists the store is exactly those chunks and is saved
\* once, the only save of the call; when no file yields a chunk nothing is
\* built and nothing is saved.
C22_FallbackRebuild ==
    [][/\ pc' = "ui_rebuild" =>
             (pc = "ui_next" /\ ui.queue = <<>> /\ faissIndex = Null /\ ui.any)
       /\ (pc = "ui_next" /\ ui.queue = <<>> /\ pc' = "ui_return") =>
             ~(faissIndex = Null /\ ui.any)
       /\ pc = "ui_rebuild" =>
             /\ hashRec' = hashRec
             /\ obs.saves = 0
             /\ StoreDocs(faissIndex') \subseteq ScannedDocs
             /\ (pc' = "ui_return" /\ used' = used) =>
                   /\ ui'.status = "ok"
                   /\ StoreDocs(faissIndex') = ScannedDocs
                   /\ diskIndex' = (IF ScannedDocs = {} THEN diskIndex ELSE faissIndex')
                   /\ obs'.saves = (IF ScannedDocs = {} THEN 0 ELSE 1)
      ]_vars

\* a call that found every file unchanged and no store has rebuilt and saved
C22_Witness ==
    /\ pc = "ui_return" /\ ui.status = "ok"
    /\ ui.any /\ obs.startNull /\ obs.hashWrites = {}
    /\ faissIndex # Null /\ diskIndex = faissIndex /\ obs.saves = 1

\* C23: as long as the process lives, a store that is in memory stays in
\* memory and every step keeps each of its chunks, copies included: the store
\* after the step contains the store before it.
C23_AppendOnly ==
    [][(faissIndex # Null /\ pc' # "down") =>
          (faissIndex' # Null /\ Get(faissIndex) \sqsubseteq Get(faissIndex'))]_vars

\* kb1/a.md was indexed, edited and indexed again: the store holds the chunks
\* of both versions
C23_Witness ==
    /\ pc = "ui_return" /\ ui.status = "ok"
    /\ content[<<KB1, AMd>>] = Some(2)
    /\ Documents(<<KB1, AMd>>, 1) \cup Documents(<<KB1, AMd>>, 2)
          \subseteq StoreDocs(faissIndex)

NotInitialized == "FAISS index is not initialized"

\* C25: the search step of retrieve_knowledge, taken after a successful
\* updateIndex, ends with the "not initialized" error exactly when the handle
\* is null, then returns no match and an error result, and in either case
\* leaves the store, the handle and every file as they were.
C25_NotInitialized ==
    [][(pc = "ui_return" /\ ui.caller = "retrieve" /\ ui.status = "ok"
        /\ pc' = "respond") =>
          /\ req'.searched
          /\ (req'.err.message = NotInitialized) <=> (faissIndex = Null)
          /\ faissIndex = Null => (req'.result = "error" /\ req'.hits = {})
          /\ faissIndex # Null => req'.result = "ok"
          /\ UNCHANGED <<fsVars, mgrVars>>
      ]_vars

\* retrieve_knowledge for kb2, which holds one empty markdown file, on a server
\* with nothing indexed: updateIndex succeeded, the answer is the error
C25_Witness ==
    /\ pc = "respond" /\ req.tool = "retrieve" /\ req.scope = Some(KB2)
    /\ ui.status = "ok" /\ ui.any /\ faissIndex = Null
    /\ req.searched /\ req.result = "error" /\ req.err.message = NotInitialized

\* C26 as claimed: a search returns at most k = 10 matches and none whose
\* score is above the threshold in force (2 when none is given).
C26_Claim ==
    (pc = "respond" /\ req.tool = "retrieve" /\ req.result = "ok") =>
       /\ Cardinality(req.hits) <= TopK
       /\ \A d \in req.hits : Score(req.query, d) <= Limit(req.threshold)

PermissionDenied == "Permission denied while attempting to"

InitActions == {"create FAISS index directory", "delete stale FAISS index",
                "load FAISS index from", "persist embedding model metadata in"}

\* C27: when initialize() fails on a permission error (making the index
\* directory, deleting or loading the index file, writing the model name), and
\* when updateIndex fails on a permission error of making a .index directory,
\* saving the index or writing a hash record, the error that comes out is the
\* "Permission denied" error naming the attempted action (the path belongs to
\* the action), it carries the logged mark, and the manager has logged it once.
C27_PermissionSurfaced ==
    /\ (pc = "init_return" /\ ini.status = "error" /\ isPermissionError(ini.err.code)) =>
          /\ ini.err.message = PermissionDenied
          /\ ini.err.action \in InitActions
          /\ ini.err.alreadyLogged /\ ini.err.logged = 1
    /\ (/\ ui.status = "failed" /\ isPermissionError(ui.err.code)
        /\ obs.faults \cap {"mkdir", "save", "hashwrite"} # {}) =>
          /\ ui.err.message = PermissionDenied
          /\ \E step \in obs.faults \cap {"mkdir", "save", "hashwrite"} :
                ui.err.action = ActionOfStep(step)
          /\ ui.err.alreadyLogged /\ ui.err.logged = 1
          /\ pc = "respond" => req.err = ui.err

\* retrieve_knowledge has answered with the error of an index save that was
\* denied
C27_Witness ==
    /\ pc = "respond" /\ req.tool = "retrieve" /\ req.result = "error"
    /\ "save" \in obs.faults /\ ui.err.code = "EACCES"
    /\ req.err.message = PermissionDenied /\ req.err.logged = 1

\* C28 as claimed: when run() has finished startup (initialize() has returned
\* without error, no tool call yet), every file of every knowledge base has been
\* checked and indexed: its hash record is the hash of its present content.
\* run() calls initialize() only, and initialize() never looks at a
\* knowledge-base file.
C28_Claim ==
    (pc = "init_return" /\ ini.status = "ok") =>
        \A kb \in KBs : \A f \in Present(kb) : hashRec[f] = CurrentHash(f)

\* position of a name in the listing order of a directory
PosOf(name) == CHOOSE i \in DOMAIN EntryOrder : EntryOrder[i] = name

\* p comes before q when a depth-first walk visits entries in listing order
RECURSIVE WalkBefore(_, _)
WalkBefore(p, q) ==
    /\ p # <<>> /\ q # <<>>
    /\ \/ PosOf(Head(p)) < PosOf(Head(q))
       \/ Head(p) = Head(q) /\ WalkBefore(Tail(p), Tail(q))

NoHiddenName(p) == \A i \in DOMAIN p : ~StartsWithDot(p[i])

\* the directories above p, the root among them
Above(p) == {SubSeq(p, 1, k) : k \in 0..(Len(p) - 1)}

\* the regular files reached from the root through directories that are not
\* hidden and can be listed, the hidden files left out
ReachableFiles(tree, unreadable) ==
    {p \in TreePaths : /\ KindOf(tree, p) = "file"
                       /\ NoHiddenName(p)
                       /\ \A d \in Above(p) : KindOf(tree, d) = "dir" /\ d \notin unreadable}

\* C29: what getFilesRecursively returns is exactly the regular files reachable
\* through directories without a leading dot, hidden files excluded, each once
\* and in depth-first listing order; hence no hidden file and nothing under
\* .index is among the paths the file loop of updateIndex hashes.
C29_FilesReturned ==
    walk.phase \in {"returned", "done"} =>
        /\ {walk.files[i] : i \in DOMAIN walk.files} = ReachableFiles(walk.tree, walk.unreadable)
        /\ Len(walk.files) = Cardinality(ReachableFiles(walk.tree, walk.unreadable))
        /\ \A i, j \in DOMAIN walk.files : i < j => WalkBefore(walk.files[i], walk.files[j])
        /\ \A p \in walk.hashed : NoHiddenName(p) /\ p \in ReachableFiles(walk.tree, walk.unreadable)

\* a tree with a file in a subdirectory listed before a file of the root, a
\* hidden file, and a record under .index: the loop has hashed the first two
C29_Witness ==
    /\ walk.phase = "done" /\ walk.unreadable = {}
    /\ walk.files = <<<<Sub, AMd>>, <<AMd>>>>
    /\ walk.hashed = {<<Sub, AMd>>, <<AMd>>}
    /\ KindOf(walk.tree, <<Sub, IndexDirName>>) = "file"
    /\ KindOf(walk.tree, <<IndexDirName, AMd>>) = "file"

\* the directories the walk comes to: not hidden, below directories that are
\* not hidden and can be listed
ReachedDirs(tree, unreadable) ==
    {d \in DirsOf(tree) : /\ NoHiddenName(d)
                          /\ \A a \in Above(d) : KindOf(tree, a) = "dir" /\ a \notin unreadable}

\* C30: getFilesRecursively returns and never throws; a directory whose listing
\* fails contributes no file and is logged once, the files of the directories
\* that can be listed are returned all the same, the result is empty when the
\* root cannot be listed, and the file loop of updateIndex over a root that
\* cannot be listed processes no file.
C30_NeverThrows ==
    walk.phase # "call" =>
        LET failing == walk.unreadable \cap ReachedDirs(walk.tree, walk.unreadable)
            returned == {walk.files[i] : i \in DOMAIN walk.files}
        IN /\ walk.phase # "thrown" /\ ~walk.thrown
           /\ \A d \in walk.unreadable : \A p \in returned : d \notin Above(p)
           /\ {walk.logged[i] : i \in DOMAIN walk.logged} = failing
           /\ Len(walk.logged) = Cardinality(failing)
           /\ \A p \in TreePaths :
                 (/\ KindOf(walk.tree, p) = "file" /\ NoHiddenName(p)
                  /\ \A a \in Above(p) : KindOf(walk.tree, a) = "dir" /\ a \notin walk.unreadable)
                 => p \in returned
           /\ RootPath \in walk.unreadable => walk.files = <<>>
           /\ (RootPath \in walk.unreadable /\ walk.phase = "done") =>
                 ~walk.anyFileProcessed /\ walk.hashed = {}

\* the listing of sub fails, it holds a file, and the file of the root listed
\* after it is returned and hashed
C30_Witness ==
    /\ walk.phase = "done" /\ walk.unreadable = {<<Sub>>}
    /\ KindOf(walk.tree, <<Sub, AMd>>) = "file"
    /\ walk.files = <<<<AMd>>>> /\ walk.logged = <<<<Sub>>>>
    /\ walk.hashed = {<<AMd>>}

\* updateIndex(kb) when the directory of kb cannot be listed: the call returns
\* without error, and no hash record, no store and no file has changed
UnlistedKnowledgeBase ==
    (pc = "ui_return" /\ ui.scope # Null /\ "list" \in obs.faults) =>
        /\ ui.status = "ok" /\ ui.err = NoError
        /\ hashRec = obs.startHash
        /\ obs.embedded = {} /\ obs.saves = 0 /\ obs.hashWrites = {}
        /\ (faissIndex = Null) = obs.startNull

UnlistedKnowledgeBaseSeen ==
    pc = "ui_return" /\ ui.scope # Null /\ "list" \in obs.faults /\ ui.status = "ok"

\* the embeddings class that belongs to a provider tag, if any provider has it
ClassOfTag(tag) == IF tag = "ollama" THEN "OllamaEmbeddings"
                   ELSE IF tag = "openai" THEN "OpenAIEmbeddings"
                   ELSE IF tag = "huggingface" THEN "HuggingFaceInferenceEmbeddings"
                   ELSE "none"

\* C31 as claimed: a remote provider selected without its credential makes the
\* constructor throw and leaves no manager; a constructed manager embeds with
\* the provider its tag names; its provider and model name stay what they were
\* at construction. A tag that names no provider the server knows is served by
\* HuggingFace embeddings.
C31_Claim ==
    boot.phase # "new" =>
        /\ (boot.made = NoManager /\ boot.outcome = "thrown") \/ boot.outcome = "constructed"
        /\ boot.outcome = "constructed" =>
              /\ boot.manager.embeddings = ClassOfTag(boot.manager.embeddingProvider)
              /\ boot.embedsWith \in {"none", ClassOfTag(boot.manager.embeddingProvider)}
              /\ boot.manager = boot.made
        /\ (/\ ~boot.envChanged
            /\ \/ EMBEDDING_PROVIDER(boot.env) = "openai" /\ Unset(boot.env.OPENAI_API_KEY)
               \/ EMBEDDING_PROVIDER(boot.env) = "huggingface"
                    /\ Unset(boot.env.HUGGINGFACE_API_KEY))
           => boot.outcome = "thrown" /\ boot.manager = NoManager

\* C32 as claimed: updateIndex and similaritySearch run for a tool call only
\* after initialize() has completed successfully; after a failed initialize()
\* no request reaches the manager. run() logs the failure of initialize() and
\* the connected server goes on serving.
C32_Claim ==
    (pc \notin {"down", "init_check", "init_load", "init_persist", "init_return", "idle"}
       \/ ui.status = "running" \/ req.searched)
    => ini.status = "ok"

\* the ids of the records of a persisted list
IdsOf(file) == {ListOf(file)[i].id : i \in DOMAIN ListOf(file)}

\* C33 as claimed: when the pending file is there and cannot be read or parsed,
\* a suggest, approve or reject call does not write a list that lacks records
\* the file held: every record of the file, the one the call removes excepted,
\* is still in the file when the call responds. suggestUrl saves the list that
\* loadPendingUrls returned, which is empty after a failed read, with the new
\* record pushed.
C33_Claim ==
    (/\ pc = "respond" /\ req.tool \in {"suggest", "approve", "reject"}
     /\ req.readFailed /\ req.pre # Null)
    => IdsOf(req.pre) \ {req.id} \subseteq IdsOf(pendingFile)

\* C34 as claimed: when updateIndex has failed because the save of the store
\* failed, the store in memory is what it was before the file was embedded:
\* the handle is still null when the call found it null and this was the first
\* file it embedded, and the store holds no chunk that the persisted index
\* lacks. The chunks are added to the store before the save and stay there.
C34_Claim ==
    (/\ pc = "ui_return" /\ ui.status = "failed" /\ "save" \in obs.faults
     /\ ini.status = "ok") =>
        /\ (obs.startNull /\ obs.saves = 0) => faissIndex = Null
        /\ StoreDocs(faissIndex) \subseteq StoreDocs(diskIndex)

\* C35 as claimed: whenever updateIndex returns successfully with a store in
\* memory, the persisted index holds exactly the chunks of that store. A call
\* that finds nothing to embed saves nothing, also when an earlier call left
\* chunks in the store that it could not save.
C35_Claim ==
    (pc = "ui_return" /\ ui.status = "ok" /\ faissIndex # Null /\ ini.status = "ok")
    => diskIndex = faissIndex

\* C36: in every step of serialized suggest, approve, reject and add_url calls
\* the persisted list holds only records with status pending or approved, no
\* two records share an id, the records stand in the order of their creation,
\* and a record that stays in the list is unchanged or goes from pending to
\* approved. (randomUUID is a fresh id; suggested_at numbers the creations.)
C36_PendingList ==
    [][LET old == ListOf(pendingFile)
           new == ListOf(pendingFile')
       IN /\ \A i \in DOMAIN new : new[i].status \in {"pending", "approved"}
          /\ \A i, j \in DOMAIN new :
                i < j => new[i].id # new[j].id /\ new[i].suggested_at < new[j].suggested_at
          /\ \A i \in DOMAIN old, j \in DOMAIN new :
                old[i].id = new[j].id =>
                   \/ new[j] = old[i]
                   \/ old[i].status = "pending"
                        /\ new[j] = [old[i] EXCEPT !.status = "approved"]]_vars

\* an approve call has responded: the list holds the record it approved before
\* a record suggested later that is still pending
C36_Witness ==
    /\ pc = "respond" /\ req.tool = "approve" /\ req.result = "ok"
    /\ Len(ListOf(pendingFile)) = 2
    /\ ListOf(pendingFile)[1].status = "approved"
    /\ ListOf(pendingFile)[2].status = "pending"

\* C37 as claimed: when two different URLs have been ingested into the same
\* knowledge base, their files have different paths, both files exist and each
\* holds the page of its own URL. sanitizeUrlForFilename drops the protocol and
\* turns each of / : ? # into an underscore, so different URLs share a name.
C37_Claim ==
    (/\ Len(ingest.done) = 2
     /\ ingest.done[1].url # ingest.done[2].url
     /\ ingest.done[1].kb = ingest.done[2].kb)
    => /\ FilePathOf(ingest.done[1]) # FilePathOf(ingest.done[2])
       /\ \A i \in 1..2 :
             [path |-> FilePathOf(ingest.done[i]), url |-> ingest.done[i].url] \in ingest.files

====
